---- MODULE Spec2Model ----
(***************************************************************************)
(* The system-parameter protocol of bevy_ecs                                *)
(* (crates/bevy_ecs/src/system/system_param.rs): registration of the        *)
(* parameters of a system against its SystemMeta (init_state), refresh for  *)
(* a new archetype (new_archetype), materialisation for one run             *)
(* (get_param) and flush of deferred buffers (apply).                       *)
(***************************************************************************)
EXTENDS Integers, Sequences, FiniteSets, TLC

VARIABLES
    archetypes,   \* World::archetypes: the archetypes that exist (each a set of components)
    alarm,        \* the resource Alarm(bool) of the world
    meta,         \* per system: its SystemMeta
    param_state,  \* per system: the State tuple of its parameters, in declaration order
    phase,        \* per system: "init" (registering), "ready", "running", "panicked"
    panic,        \* per system: the panic raised by its registration, or NoPanic
    alive,        \* per running system: the ParamSet members <<param, member>> whose item is alive
    released,     \* per running system: the ParamSet members retrieved and dropped in this run
    runs,         \* per system: the number of its runs that have started
    item,         \* per running system: the value each Local item held when get_param built it
    obs,          \* per system: the value its body last read through a Local
    change_tick,  \* World::change_tick: the change tick of the world
    this_run,     \* per system: the change tick its current (or last) run was given
    declared,     \* per system: the types of the parameters it has declared, in order
    render        \* the render world: its entities, assets and frame

vars ==
    <<archetypes, alarm, meta, param_state, phase, panic, alive, released, runs, item, obs,
      change_tick, this_run, declared, render>>

(***************************************************************************)
(* Bounds of the model.                                                    *)
(***************************************************************************)
MaxParams == 2        \* parameters declared by one system
MaxArchetypes == 2    \* archetypes created besides the empty one
MaxRuns == 2          \* runs of one system
MaxTick == 4          \* the change tick of the world
MaxTuple == 3         \* members of a tuple

Systems == {"X", "Y"}

\* World::components: the registered component and resource types; a
\* ComponentId is the index of the type's info.
ComponentNames == <<"Health", "Enemy", "Ally", "Alarm">>

ComponentIds == DOMAIN ComponentNames

Components_get_info_name(component_id) == ComponentNames[component_id]

Id(name) == CHOOSE id \in ComponentIds : ComponentNames[id] = name

Health == Id("Health")

Enemy == Id("Enemy")

Ally == Id("Ally")

\* The resource Alarm(bool).
Alarm == Id("Alarm")

\* The archetypes that can be created: entities that carry Health.
ArchetypeUniverse ==
    {{Health}, {Health, Enemy}, {Health, Ally}, {Health, Enemy, Ally}}

EmptyArchetype == {}

Range(seq) == {seq[i] : i \in DOMAIN seq}

(***************************************************************************)
(* Access<T>: reads_and_writes and writes over identifiers, plus the       *)
(* universal markers.                                                      *)
(***************************************************************************)
Access_default ==
    [reads_and_writes |-> {}, writes |-> {}, reads_all |-> FALSE, writes_all |-> FALSE]

Access_read_all(a) == [a EXCEPT !.reads_all = TRUE]

Access_add_read(a, i) == [a EXCEPT !.reads_and_writes = @ \cup {i}]

Access_add_write(a, i) ==
    [a EXCEPT !.reads_and_writes = @ \cup {i}, !.writes = @ \cup {i}]

Access_has_read(a, i) == a.reads_all \/ i \in a.reads_and_writes

Access_has_write(a, i) == a.writes_all \/ i \in a.writes

Access_has_any_read(a) == a.reads_all \/ a.reads_and_writes # {}

Access_has_any_write(a) == a.writes_all \/ a.writes # {}

Access_extend(a, b) ==
    [reads_and_writes |-> a.reads_and_writes \cup b.reads_and_writes,
     writes           |-> a.writes \cup b.writes,
     reads_all        |-> a.reads_all \/ b.reads_all,
     writes_all       |-> a.writes_all \/ b.writes_all]

\* Two accesses are compatible when neither writes what the other reads or
\* writes; read-all is compatible only with an access that writes nothing.
Access_is_compatible(a, b) ==
    IF a.reads_all THEN ~Access_has_any_write(b)
    ELSE IF b.reads_all THEN ~Access_has_any_write(a)
    ELSE IF a.writes_all THEN ~Access_has_any_read(b)
    ELSE IF b.writes_all THEN ~Access_has_any_read(a)
    ELSE /\ a.writes \cap b.reads_and_writes = {}
         /\ b.writes \cap a.reads_and_writes = {}

\* The identifiers on which two accesses overlap with a write on one side.
Access_get_conflicts(a, b) ==
    (IF a.reads_all THEN b.writes ELSE {})
    \cup (IF b.reads_all THEN a.writes ELSE {})
    \cup (IF a.writes_all THEN b.reads_and_writes ELSE {})
    \cup (IF b.writes_all THEN a.reads_and_writes ELSE {})
    \cup (a.writes \cap b.reads_and_writes)
    \cup (a.reads_and_writes \cap b.writes)

(***************************************************************************)
(* FilteredAccess<T>: an access with its filters in disjunctive normal     *)
(* form (each filter set: the components required and those excluded).     *)
(***************************************************************************)
AccessFilters(with, without) == [with |-> with, without |-> without]

FilteredAccess_default ==
    [access |-> Access_default, filter_sets |-> {AccessFilters({}, {})}]

FilteredAccess_read_all(fa) == [fa EXCEPT !.access = Access_read_all(@)]

\* A filter set rules another out when one requires what the other excludes.
AccessFilters_is_ruled_out_by(f, g) ==
    \/ f.with \cap g.without # {}
    \/ f.without \cap g.with # {}

FilteredAccess_is_compatible(fa, other) ==
    \/ Access_is_compatible(fa.access, other.access)
    \/ \A f \in fa.filter_sets :
           \A g \in other.filter_sets : AccessFilters_is_ruled_out_by(f, g)

FilteredAccess_get_conflicts(fa, other) ==
    IF ~FilteredAccess_is_compatible(fa, other)
    THEN Access_get_conflicts(fa.access, other.access)
    ELSE {}

(***************************************************************************)
(* FilteredAccessSet<T>: the accumulator of a system.                      *)
(***************************************************************************)
FilteredAccessSet_default ==
    [combined_access |-> Access_default, filtered_accesses |-> <<>>]

FilteredAccessSet_get_conflicts_single(set, fa) ==
    UNION {FilteredAccess_get_conflicts(cur, fa) : cur \in Range(set.filtered_accesses)}

FilteredAccessSet_add(set, fa) ==
    [combined_access   |-> Access_extend(set.combined_access, fa.access),
     filtered_accesses |-> Append(set.filtered_accesses, fa)]

FilteredAccessSet_extend(set, other) ==
    [combined_access   |-> Access_extend(set.combined_access, other.combined_access),
     filtered_accesses |-> set.filtered_accesses \o other.filtered_accesses]

(***************************************************************************)
(* SystemMeta.                                                             *)
(***************************************************************************)
SystemMeta_new(name) ==
    [name                       |-> name,
     component_access_set       |-> FilteredAccessSet_default,
     archetype_component_access |-> Access_default,
     last_run                   |-> 0]

(***************************************************************************)
(* The query types of the model, each with the component access its        *)
(* WorldQueryData and WorldQueryFilter declare.                            *)
(***************************************************************************)
QueryType(Q, F, reads, writes, filter_sets) ==
    [query_type       |-> Q,
     filter_type      |-> F,
     component_access |->
         [access      |-> [reads_and_writes |-> reads \cup writes, writes |-> writes,
                           reads_all |-> FALSE, writes_all |-> FALSE],
          filter_sets |-> filter_sets]]

QMutHealthWithEnemy ==
    QueryType("&mut Health", "With<Enemy>", {}, {Health},
              {AccessFilters({Health, Enemy}, {})})

QMutHealthWithAlly ==
    QueryType("&mut Health", "With<Ally>", {}, {Health},
              {AccessFilters({Health, Ally}, {})})

QMutHealthWithoutEnemy ==
    QueryType("&mut Health", "Without<Enemy>", {}, {Health},
              {AccessFilters({Health}, {Enemy})})

QMutHealth ==
    QueryType("&mut Health", "()", {}, {Health}, {AccessFilters({Health}, {})})

QRefHealth ==
    QueryType("&Health", "()", {Health}, {}, {AccessFilters({Health}, {})})

QMutHealthRefEnemy ==
    QueryType("(&mut Health, &Enemy)", "()", {Enemy}, {Health},
              {AccessFilters({Health, Enemy}, {})})

QMutHealthOrEnemyAlly ==
    QueryType("&mut Health", "Or<(With<Enemy>, With<Ally>)>", {}, {Health},
              {AccessFilters({Health, Enemy}, {}), AccessFilters({Health, Ally}, {})})

QueryTypes ==
    {QMutHealthWithEnemy, QMutHealthWithAlly, QMutHealthWithoutEnemy, QMutHealth,
     QRefHealth, QMutHealthRefEnemy, QMutHealthOrEnemyAlly}

(***************************************************************************)
(* QueryState<Q, F>.                                                       *)
(***************************************************************************)
\* Whether an archetype is matched by a query: some filter set has all its
\* required components in the archetype and none of its excluded ones.
QueryState_matches(component_access, archetype) ==
    \E f \in component_access.filter_sets :
        f.with \subseteq archetype /\ f.without \cap archetype = {}

\* The storage location of a component in an archetype.
ArchetypeComponentId(archetype, component_id) == <<archetype, component_id>>

\* QueryState::new_archetype: a matched archetype contributes, for every
\* accessed component it holds, that storage location.
QueryState_new_archetype(state, archetype) ==
    IF QueryState_matches(state.component_access, archetype)
    THEN LET acc == state.component_access.access
             rd  == {ArchetypeComponentId(archetype, c) :
                        c \in acc.reads_and_writes \cap archetype}
             wr  == {ArchetypeComponentId(archetype, c) : c \in acc.writes \cap archetype}
         IN [state EXCEPT
                !.matched_archetypes = @ \cup {archetype},
                !.archetype_component_access =
                    [@ EXCEPT !.reads_and_writes = @ \cup rd, !.writes = @ \cup wr]]
    ELSE state

RECURSIVE QueryState_visit(_, _)
QueryState_visit(state, archs) ==
    IF archs = {} THEN state
    ELSE LET a == CHOOSE x \in archs : TRUE
         IN QueryState_visit(QueryState_new_archetype(state, a), archs \ {a})

\* QueryState::new: the query's component access, and every archetype of the
\* world visited.
QueryState_new(world_archetypes, q) ==
    QueryState_visit(
        [kind                       |-> "Query",
         query_type                 |-> q.query_type,
         filter_type                |-> q.filter_type,
         component_access           |-> q.component_access,
         archetype_component_access |-> Access_default,
         matched_archetypes         |-> {}],
        world_archetypes)

(***************************************************************************)
(* Registration: SystemParam::init_state.  Each returns the panic it       *)
(* raises (or NoPanic), the SystemMeta as it leaves it, and the State.     *)
(***************************************************************************)
NoPanic == [kind |-> "none"]

NoState == [kind |-> "none"]

\* The check disabled: no conflict is ever reported.
assert_component_access_compatibility_NeverPanics(system_name, query_type, filter_type, system_access, current) ==
    NoPanic

\* The check made against the system's combined access, the filters ignored.
assert_component_access_compatibility_Unfiltered(system_name, query_type, filter_type, system_access, current) ==
    LET conflicts == Access_get_conflicts(system_access.combined_access, current.access)
    IN IF conflicts = {} THEN NoPanic
       ELSE [kind        |-> "B0001",
             query_type  |-> query_type,
             filter_type |-> filter_type,
             system_name |-> system_name,
             accesses    |-> {Components_get_info_name(c) : c \in conflicts}]

\* error[B0001]
assert_component_access_compatibility(system_name, query_type, filter_type, system_access, current) ==
    LET conflicts == FilteredAccessSet_get_conflicts_single(system_access, current)
    IN IF conflicts = {} THEN NoPanic
       ELSE [kind        |-> "B0001",
             query_type  |-> query_type,
             filter_type |-> filter_type,
             system_name |-> system_name,
             accesses    |-> {Components_get_info_name(c) : c \in conflicts}]

\* The query's access added to the system's before the compatibility check.
Query_init_state_AddBeforeCheck(world_archetypes, system_meta, q) ==
    LET state == QueryState_new(world_archetypes, q)
        added == [system_meta EXCEPT
                     !.component_access_set =
                         FilteredAccessSet_add(@, state.component_access),
                     !.archetype_component_access =
                         Access_extend(@, state.archetype_component_access)]
        p     == assert_component_access_compatibility(
                     system_meta.name, q.query_type, q.filter_type,
                     added.component_access_set, state.component_access)
    IN IF p # NoPanic
       THEN [panic |-> p, meta |-> added, state |-> NoState]
       ELSE [panic |-> NoPanic, meta |-> added, state |-> state]

\* The query's component access not added to that of the system.
Query_init_state_NoComponentMerge(world_archetypes, system_meta, q) ==
    LET state == QueryState_new(world_archetypes, q)
        p     == assert_component_access_compatibility(
                     system_meta.name, q.query_type, q.filter_type,
                     system_meta.component_access_set, state.component_access)
    IN IF p # NoPanic
       THEN [panic |-> p, meta |-> system_meta, state |-> NoState]
       ELSE [panic |-> NoPanic,
             meta  |-> [system_meta EXCEPT
                           !.archetype_component_access =
                               Access_extend(@, state.archetype_component_access)],
             state |-> state]

\* The conflict decided on the storage locations: the query is refused when
\* its archetype_component_access is incompatible with that of the system.
Query_init_state_ArchetypeCheck(world_archetypes, system_meta, q) ==
    LET state == QueryState_new(world_archetypes, q)
    IN IF ~Access_is_compatible(system_meta.archetype_component_access,
                                state.archetype_component_access)
       THEN [panic |-> [kind        |-> "B0001",
                        query_type  |-> q.query_type,
                        filter_type |-> q.filter_type,
                        system_name |-> system_meta.name,
                        accesses    |-> {}],
             meta  |-> system_meta, state |-> NoState]
       ELSE [panic |-> NoPanic,
             meta  |-> [system_meta EXCEPT
                           !.component_access_set =
                               FilteredAccessSet_add(@, state.component_access),
                           !.archetype_component_access =
                               Access_extend(@, state.archetype_component_access)],
             state |-> state]

\* Only the writes of the query recorded in archetype_component_access.
Query_init_state_WritesOnly(world_archetypes, system_meta, q) ==
    LET state == QueryState_new(world_archetypes, q)
        p     == assert_component_access_compatibility(
                     system_meta.name, q.query_type, q.filter_type,
                     system_meta.component_access_set, state.component_access)
    IN IF p # NoPanic
       THEN [panic |-> p, meta |-> system_meta, state |-> NoState]
       ELSE [panic |-> NoPanic,
             meta  |-> [system_meta EXCEPT
                           !.component_access_set =
                               FilteredAccessSet_add(@, state.component_access),
                           !.archetype_component_access.writes =
                               @ \cup state.archetype_component_access.writes],
             state |-> state]

\* archetype_component_access extended before the compatibility check.
Query_init_state_ExtendBeforeCheck(world_archetypes, system_meta, q) ==
    LET state == QueryState_new(world_archetypes, q)
        meta1 == [system_meta EXCEPT
                     !.archetype_component_access =
                         Access_extend(@, state.archetype_component_access)]
        p     == assert_component_access_compatibility(
                     system_meta.name, q.query_type, q.filter_type,
                     system_meta.component_access_set, state.component_access)
    IN IF p # NoPanic
       THEN [panic |-> p, meta |-> meta1, state |-> NoState]
       ELSE [panic |-> NoPanic,
             meta  |-> [meta1 EXCEPT
                           !.component_access_set =
                               FilteredAccessSet_add(@, state.component_access)],
             state |-> state]

Query_init_state(world_archetypes, system_meta, q) ==
    LET state == QueryState_new(world_archetypes, q)
        p     == assert_component_access_compatibility(
                     system_meta.name, q.query_type, q.filter_type,
                     system_meta.component_access_set, state.component_access)
    IN IF p # NoPanic
       THEN [panic |-> p, meta |-> system_meta, state |-> NoState]
       ELSE [panic |-> NoPanic,
             meta  |-> [system_meta EXCEPT
                           !.component_access_set =
                               FilteredAccessSet_add(@, state.component_access),
                           !.archetype_component_access =
                               Access_extend(@, state.archetype_component_access)],
             state |-> state]

\* The access of the system replaced by that of the refreshed State.
Query_new_archetype_Replace(state, archetype, system_meta) ==
    LET st == QueryState_new_archetype(state, archetype)
    IN [state |-> st,
        meta  |-> [system_meta EXCEPT
                      !.archetype_component_access = st.archetype_component_access]]

\* The State refreshed and the access of the system left as it was.
Query_new_archetype_NoExtend(state, archetype, system_meta) ==
    [state |-> QueryState_new_archetype(state, archetype), meta |-> system_meta]

Query_new_archetype(state, archetype, system_meta) ==
    LET st == QueryState_new_archetype(state, archetype)
    IN [state |-> st,
        meta  |-> [system_meta EXCEPT
                      !.archetype_component_access =
                          Access_extend(@, st.archetype_component_access)]]

WorldPanic == [kind |-> "&World conflicts with a previous mutable system parameter"]

\* Only the check of archetype_component_access made, not that of component_access_set.
World_init_state_OnlyArchetypeCheck(system_meta) ==
    LET access == Access_read_all(Access_default)
        filtered_access == FilteredAccess_read_all(FilteredAccess_default)
    IN IF ~Access_is_compatible(system_meta.archetype_component_access, access)
       THEN [panic |-> WorldPanic, meta |-> system_meta, state |-> NoState]
       ELSE [panic |-> NoPanic,
             meta  |-> [system_meta EXCEPT
                           !.archetype_component_access = Access_extend(@, access),
                           !.component_access_set =
                               FilteredAccessSet_add(@, filtered_access)],
             state |-> [kind |-> "World"]]

\* Neither check made: the read-all access recorded whatever came before.
World_init_state_NeverPanics(system_meta) ==
    [panic |-> NoPanic,
     meta  |-> [system_meta EXCEPT
                   !.archetype_component_access = Access_read_all(@),
                   !.component_access_set =
                       FilteredAccessSet_add(@, FilteredAccess_read_all(FilteredAccess_default))],
     state |-> [kind |-> "World"]]

\* The read-all access recorded in component_access_set only.
World_init_state_NoArchetypeMarker(system_meta) ==
    LET access == Access_read_all(Access_default)
        filtered_access == FilteredAccess_read_all(FilteredAccess_default)
    IN IF ~Access_is_compatible(system_meta.archetype_component_access, access)
       THEN [panic |-> WorldPanic, meta |-> system_meta, state |-> NoState]
       ELSE IF FilteredAccessSet_get_conflicts_single(
                   system_meta.component_access_set, filtered_access) # {}
       THEN [panic |-> WorldPanic, meta |-> system_meta, state |-> NoState]
       ELSE [panic |-> NoPanic,
             meta  |-> [system_meta EXCEPT
                           !.component_access_set =
                               FilteredAccessSet_add(@, filtered_access)],
             state |-> [kind |-> "World"]]

World_init_state(system_meta) ==
    LET access == Access_read_all(Access_default)
        meta1  == [system_meta EXCEPT
                      !.archetype_component_access = Access_extend(@, access)]
        filtered_access == FilteredAccess_read_all(FilteredAccess_default)
    IN IF ~Access_is_compatible(system_meta.archetype_component_access, access)
       THEN [panic |-> WorldPanic, meta |-> system_meta, state |-> NoState]
       ELSE IF FilteredAccessSet_get_conflicts_single(
                   meta1.component_access_set, filtered_access) # {}
       THEN [panic |-> WorldPanic, meta |-> meta1, state |-> NoState]
       ELSE [panic |-> NoPanic,
             meta  |-> [meta1 EXCEPT
                           !.component_access_set =
                               FilteredAccessSet_add(@, filtered_access)],
             state |-> [kind |-> "World"]]

(***************************************************************************)
(* Local<T> with T = usize, and Deferred<T> with T = AlarmFlag.            *)
(***************************************************************************)
\* usize::from_world: the default value.
FromWorld_usize == 0

Local_init_state(world_archetypes) == [kind |-> "Local", value |-> FromWorld_usize]

\* The state initialised again each time the item is built.
Local_get_param_Reinit(state) == [state EXCEPT !.value = FromWorld_usize]

\* Local(state.get()): the item borrows the state cell and leaves it as it is.
Local_get_param(state) == state

Local_deref(state) == state.value

Local_deref_mut(state, v) == [state EXCEPT !.value = v]

\* AlarmFlag::default: no alarm is flagged.
Deferred_init_state(world_archetypes) == [kind |-> "Deferred", flag |-> FALSE]

\* The buffer applied to the world when the item is built.
Deferred_get_param_Applies(state, world_alarm) ==
    IF state.flag
    THEN [state |-> [state EXCEPT !.flag = FALSE], alarm |-> TRUE]
    ELSE [state |-> state, alarm |-> world_alarm]

\* Deferred(state.get())
Deferred_get_param(state, world_alarm) == [state |-> state, alarm |-> world_alarm]

\* AlarmFlag::flag
AlarmFlag_flag(state) == [state EXCEPT !.flag = TRUE]

\* The alarm sounded and the flag left set.
AlarmFlag_apply_NoClear(state, world_alarm) ==
    IF state.flag
    THEN [state |-> state, alarm |-> TRUE]
    ELSE [state |-> state, alarm |-> world_alarm]

\* AlarmFlag::apply (SystemBuffer)
AlarmFlag_apply(state, world_alarm) ==
    IF state.flag
    THEN [state |-> [state EXCEPT !.flag = FALSE], alarm |-> TRUE]
    ELSE [state |-> state, alarm |-> world_alarm]

\* Deferred::apply: state.get().apply(system_meta, world)
Deferred_apply(state, world_alarm) == AlarmFlag_apply(state, world_alarm)

\* Deferred<T> with a second SystemBuffer, one that queues the silencing of
\* the alarm: its apply does world.resource_mut::<Alarm>().0 = false.
Silence_init_state(world_archetypes) == [kind |-> "DeferredSilence", flag |-> FALSE]

AlarmSilence_apply(state, world_alarm) ==
    IF state.flag
    THEN [state |-> [state EXCEPT !.flag = FALSE], alarm |-> FALSE]
    ELSE [state |-> state, alarm |-> world_alarm]

\* The kinds of State that are SystemBuffers.
BufferKinds == {"Deferred", "DeferredSilence"}

(***************************************************************************)
(* ResMut<T> with T = Alarm: direct write access to a resource.            *)
(***************************************************************************)
ResMutParam == [kind |-> "ResMut"]

\* The storage location of a resource.
ResourceLocation(component_id) == ArchetypeComponentId({component_id}, component_id)

ResMutPanic == [kind |-> "B0002"]

\* ResMut::init_state: the resource must be neither read nor written by
\* an earlier parameter; its write access is recorded in both accesses.
ResMut_init_state(system_meta) ==
    LET combined_access == system_meta.component_access_set.combined_access
    IN IF Access_has_write(combined_access, Alarm) \/ Access_has_read(combined_access, Alarm)
       THEN [panic |-> ResMutPanic, meta |-> system_meta, state |-> NoState]
       ELSE [panic |-> NoPanic,
             meta  |-> [system_meta EXCEPT
                           !.component_access_set =
                               FilteredAccessSet_add(@,
                                   [FilteredAccess_default EXCEPT
                                       !.access = Access_add_write(@, Alarm)]),
                           !.archetype_component_access =
                               Access_add_write(@, ResourceLocation(Alarm))],
             state |-> [kind |-> "ResMut"]]

(***************************************************************************)
(* &Archetypes, &Components, &Entities, &Bundles, SystemName, PhantomData. *)
(***************************************************************************)
\* The metadata reader registered as a read of the whole world.
Archetypes_init_state_ReadAll(system_meta) ==
    LET r == World_init_state(system_meta)
    IN [r EXCEPT !.state = IF r.panic = NoPanic THEN [kind |-> "Archetypes"] ELSE NoState]

\* fn init_state(_world, _system_meta) -> Self::State {}
Archetypes_init_state(system_meta) ==
    [panic |-> NoPanic, meta |-> system_meta, state |-> [kind |-> "Archetypes"]]

Components_init_state(system_meta) ==
    [panic |-> NoPanic, meta |-> system_meta, state |-> [kind |-> "Components"]]

Entities_init_state(system_meta) ==
    [panic |-> NoPanic, meta |-> system_meta, state |-> [kind |-> "Entities"]]

Bundles_init_state(system_meta) ==
    [panic |-> NoPanic, meta |-> system_meta, state |-> [kind |-> "Bundles"]]

PhantomData_init_state(system_meta) ==
    [panic |-> NoPanic, meta |-> system_meta, state |-> [kind |-> "PhantomData"]]

\* system_meta.name.clone()
SystemName_init_state(system_meta) ==
    [panic |-> NoPanic, meta |-> system_meta,
     state |-> [kind |-> "SystemName", name |-> system_meta.name]]

\* The name read from the SystemMeta each time the item is built.
SystemName_get_param_FromMeta(name, system_meta) ==
    [kind |-> "SystemName", f0 |-> system_meta.name]

\* SystemName(name)
SystemName_get_param(name, system_meta) ==
    [kind |-> "SystemName", f0 |-> name.name]

\* SystemName::name: self.0
SystemName_name(system_name) == system_name.f0

(***************************************************************************)
(* SystemChangeTick.                                                       *)
(***************************************************************************)
SystemChangeTick_init_state(world_archetypes) == [kind |-> "SystemChangeTick"]

\* Both ticks copied from the current change tick.
SystemChangeTick_get_param_BothThisRun(system_meta, tick) ==
    [last_run |-> tick, this_run |-> tick]

SystemChangeTick_get_param(system_meta, tick) ==
    [last_run |-> system_meta.last_run, this_run |-> tick]

(***************************************************************************)
(* ParamSet<(P0, P1)> over queries and &World.                             *)
(***************************************************************************)
QueryParam(q) == [kind |-> "Query", q |-> q]

WorldParam == [kind |-> "World"]

\* The parameter types that the model places in a ParamSet.
SetMembers == {QueryParam(QMutHealthWithEnemy), QueryParam(QMutHealthWithAlly), WorldParam}

Member_init_state(world_archetypes, system_meta, p) ==
    IF p.kind = "Query" THEN Query_init_state(world_archetypes, system_meta, p.q)
    ELSE World_init_state(system_meta)

SystemMeta_cleared(system_meta) ==
    [system_meta EXCEPT !.component_access_set = FilteredAccessSet_default,
                        !.archetype_component_access = Access_default]

\* Each member registers alone against a cleared copy of the metadata (its
\* own access) and against a copy of the system's metadata (the conflict
\* check against the earlier parameters); then the members' accesses are
\* merged into the system's metadata.
\* The members checked, their accesses not merged into the system's metadata.
ParamSet_init_state_NoMerge(world_archetypes, system_meta, members) ==
    LET alone(i)   == Member_init_state(world_archetypes,
                                        SystemMeta_cleared(system_meta), members[i])
        checked(i) == Member_init_state(world_archetypes, system_meta, members[i])
        raised(i)  == IF alone(i).panic # NoPanic THEN alone(i).panic ELSE checked(i).panic
        failing    == {i \in DOMAIN members : raised(i) # NoPanic}
    IN IF failing # {}
       THEN [panic |-> raised(CHOOSE i \in failing : \A j \in failing : i <= j),
             meta  |-> system_meta,
             state |-> NoState]
       ELSE [panic |-> NoPanic,
             meta  |-> system_meta,
             state |-> [kind    |-> "ParamSet",
                        members |-> [i \in DOMAIN members |-> checked(i).state]]]

\* The two members registered one after the other against the system's
\* metadata, each seeing the access of the one before it.
ParamSet_init_state_Sequential(world_archetypes, system_meta, members) ==
    LET r1 == Member_init_state(world_archetypes, system_meta, members[1])
        r2 == Member_init_state(world_archetypes, r1.meta, members[2])
    IN IF r1.panic # NoPanic
       THEN [panic |-> r1.panic, meta |-> system_meta, state |-> NoState]
       ELSE IF r2.panic # NoPanic
       THEN [panic |-> r2.panic, meta |-> system_meta, state |-> NoState]
       ELSE [panic |-> NoPanic,
             meta  |-> r2.meta,
             state |-> [kind |-> "ParamSet", members |-> <<r1.state, r2.state>>]]

ParamSet_init_state(world_archetypes, system_meta, members) ==
    LET alone(i)   == Member_init_state(world_archetypes,
                                        SystemMeta_cleared(system_meta), members[i])
        checked(i) == Member_init_state(world_archetypes, system_meta, members[i])
        raised(i)  == IF alone(i).panic # NoPanic THEN alone(i).panic ELSE checked(i).panic
        failing    == {i \in DOMAIN members : raised(i) # NoPanic}
        merged[i \in 0..Len(members)] ==
            IF i = 0 THEN system_meta
            ELSE [merged[i - 1] EXCEPT
                     !.component_access_set =
                         FilteredAccessSet_extend(@, alone(i).meta.component_access_set),
                     !.archetype_component_access =
                         Access_extend(@, alone(i).meta.archetype_component_access)]
    IN IF failing # {}
       THEN [panic |-> raised(CHOOSE i \in failing : \A j \in failing : i <= j),
             meta  |-> system_meta,
             state |-> NoState]
       ELSE [panic |-> NoPanic,
             meta  |-> merged[Len(members)],
             state |-> [kind    |-> "ParamSet",
                        members |-> [i \in DOMAIN members |-> checked(i).state]]]

(***************************************************************************)
(* Tuples (P0, .., Pn) and StaticSystemParam<P>.  The kind of a State      *)
(* stands for the type of its parameter, by which the methods are chosen;  *)
(* the State of StaticSystemParam<P> is the State of P (inner).            *)
(***************************************************************************)
LocalParam == [kind |-> "Local"]

SystemChangeTickParam == [kind |-> "SystemChangeTick"]

ParamSetParam(members) == [kind |-> "ParamSet", members |-> members]

DeferredParam == [kind |-> "Deferred"]

SilenceParam == [kind |-> "DeferredSilence"]

TupleParam(members) == [kind |-> "Tuple", members |-> members]

StaticParam(p) == [kind |-> "Static", p |-> p]

ArchetypesParam == [kind |-> "Archetypes"]

ComponentsParam == [kind |-> "Components"]

EntitiesParam == [kind |-> "Entities"]

BundlesParam == [kind |-> "Bundles"]

SystemNameParam == [kind |-> "SystemName"]

PhantomDataParam == [kind |-> "PhantomData"]

(***************************************************************************)
(* The render world of the skybox: its components and resources, and the   *)
(* parameters of prepare_skybox_pipelines and prepare_skybox_bind_groups.  *)
(***************************************************************************)
\* The component and resource types registered in the render world.
RenderComponentNames ==
    <<"ExtractedView", "Skybox", "SkyboxPipelineId", "SkyboxBindGroup",
      "PipelineCache", "SpecializedRenderPipelines<SkyboxPipeline>", "SkyboxPipeline",
      "Msaa", "ViewUniforms", "RenderAssets<Image>", "RenderDevice">>

RenderId(name) ==
    Len(ComponentNames) + (CHOOSE i \in DOMAIN RenderComponentNames :
                               RenderComponentNames[i] = name)

ExtractedView == RenderId("ExtractedView")

Skybox == RenderId("Skybox")

SkyboxPipelineId == RenderId("SkyboxPipelineId")

SkyboxBindGroup == RenderId("SkyboxBindGroup")

\* Res<T>
ResParam(name) == [kind |-> "Res", id |-> RenderId(name)]

\* ResMut<T>
ResMutTParam(name) == [kind |-> "ResMutT", id |-> RenderId(name)]

\* Commands
CommandsParam == [kind |-> "Commands"]

ResPanic(component_id) == [kind |-> "B0002", id |-> component_id]

\* Res::init_state: the resource must not be written by an earlier
\* parameter; its read access is recorded in both accesses.
Res_init_state(system_meta, component_id) ==
    LET combined_access == system_meta.component_access_set.combined_access
    IN IF Access_has_write(combined_access, component_id)
       THEN [panic |-> ResPanic(component_id), meta |-> system_meta, state |-> NoState]
       ELSE [panic |-> NoPanic,
             meta  |-> [system_meta EXCEPT
                           !.component_access_set =
                               FilteredAccessSet_add(@,
                                   [FilteredAccess_default EXCEPT
                                       !.access = Access_add_read(@, component_id)]),
                           !.archetype_component_access =
                               Access_add_read(@, ResourceLocation(component_id))],
             state |-> [kind |-> "Res", id |-> component_id]]

\* ResMut::init_state for the resource of that id.
ResMutT_init_state(system_meta, component_id) ==
    LET combined_access == system_meta.component_access_set.combined_access
    IN IF Access_has_write(combined_access, component_id)
          \/ Access_has_read(combined_access, component_id)
       THEN [panic |-> ResPanic(component_id), meta |-> system_meta, state |-> NoState]
       ELSE [panic |-> NoPanic,
             meta  |-> [system_meta EXCEPT
                           !.component_access_set =
                               FilteredAccessSet_add(@,
                                   [FilteredAccess_default EXCEPT
                                       !.access = Access_add_write(@, component_id)]),
                           !.archetype_component_access =
                               Access_add_write(@, ResourceLocation(component_id))],
             state |-> [kind |-> "ResMutT", id |-> component_id]]

\* Commands::init_state: a Deferred command queue and &Entities; no access.
Commands_init_state(system_meta) ==
    [panic |-> NoPanic, meta |-> system_meta,
     state |-> [kind |-> "Commands", queue |-> <<>>]]

\* The query without its filter: every view is iterated.
QViewsWithSkybox_NoFilter ==
    QueryType("(Entity, &ExtractedView)", "()", {ExtractedView}, {},
              {AccessFilters({ExtractedView}, {})})

\* Query<(Entity, &ExtractedView), With<Skybox>>
QViewsWithSkybox ==
    QueryType("(Entity, &ExtractedView)", "With<Skybox>", {ExtractedView}, {},
              {AccessFilters({ExtractedView, Skybox}, {})})

\* Query<(Entity, &Skybox)>
QSkybox ==
    QueryType("(Entity, &Skybox)", "()", {Skybox}, {}, {AccessFilters({Skybox}, {})})

\* pipeline declared as a second access to the specialized pipelines.
prepare_skybox_pipelines_params_PipelineMistyped ==
    <<CommandsParam,
      ResParam("PipelineCache"),
      ResMutTParam("SpecializedRenderPipelines<SkyboxPipeline>"),
      ResParam("SpecializedRenderPipelines<SkyboxPipeline>"),
      ResParam("Msaa"),
      QueryParam(QViewsWithSkybox)>>

\* The parameters of prepare_skybox_pipelines, as declared.
prepare_skybox_pipelines_params ==
    <<CommandsParam,
      ResParam("PipelineCache"),
      ResMutTParam("SpecializedRenderPipelines<SkyboxPipeline>"),
      ResParam("SkyboxPipeline"),
      ResParam("Msaa"),
      QueryParam(QViewsWithSkybox)>>

\* The parameters of prepare_skybox_bind_groups, as declared.
prepare_skybox_bind_groups_params ==
    <<CommandsParam,
      ResParam("SkyboxPipeline"),
      ResParam("ViewUniforms"),
      ResParam("RenderAssets<Image>"),
      ResParam("RenderDevice"),
      QueryParam(QSkybox)>>

\* System X is prepare_skybox_pipelines and system Y prepare_skybox_bind_groups.
SkyboxParams(s) ==
    IF s = "X" THEN prepare_skybox_pipelines_params ELSE prepare_skybox_bind_groups_params

\* No render world.
NoRender == [frame |-> 0]

RECURSIVE SystemParam_init_state(_, _, _)
RECURSIVE Tuple_init_state(_, _, _)
\* P::init_state(world, system_meta)
StaticSystemParam_init_state(world_archetypes, system_meta, p) ==
    LET r == SystemParam_init_state(world_archetypes, system_meta, p)
    IN IF r.panic # NoPanic THEN r
       ELSE [r EXCEPT !.state = [kind |-> "Static", inner |-> r.state]]

SystemParam_init_state(world_archetypes, system_meta, p) ==
    CASE p.kind = "Query" -> Query_init_state(world_archetypes, system_meta, p.q)
      [] p.kind = "World" -> World_init_state(system_meta)
      [] p.kind = "Local" ->
             [panic |-> NoPanic, meta |-> system_meta,
              state |-> Local_init_state(world_archetypes)]
      [] p.kind = "Deferred" ->
             [panic |-> NoPanic, meta |-> system_meta,
              state |-> Deferred_init_state(world_archetypes)]
      [] p.kind = "DeferredSilence" ->
             [panic |-> NoPanic, meta |-> system_meta,
              state |-> Silence_init_state(world_archetypes)]
      [] p.kind = "SystemChangeTick" ->
             [panic |-> NoPanic, meta |-> system_meta,
              state |-> SystemChangeTick_init_state(world_archetypes)]
      [] p.kind = "Res" -> Res_init_state(system_meta, p.id)
      [] p.kind = "ResMutT" -> ResMutT_init_state(system_meta, p.id)
      [] p.kind = "Commands" -> Commands_init_state(system_meta)
      [] p.kind = "Archetypes" -> Archetypes_init_state(system_meta)
      [] p.kind = "Components" -> Components_init_state(system_meta)
      [] p.kind = "Entities" -> Entities_init_state(system_meta)
      [] p.kind = "Bundles" -> Bundles_init_state(system_meta)
      [] p.kind = "SystemName" -> SystemName_init_state(system_meta)
      [] p.kind = "PhantomData" -> PhantomData_init_state(system_meta)
      [] p.kind = "Tuple" -> Tuple_init_state(world_archetypes, system_meta, p.members)
      [] p.kind = "Static" -> StaticSystemParam_init_state(world_archetypes, system_meta, p.p)

\* The members registered from the last to the first.
Tuple_init_state_ReverseOrder(world_archetypes, system_meta, members) ==
    LET n      == Len(members)
        rev(q) == [i \in DOMAIN q |-> q[Len(q) + 1 - i]]
        thread[i \in 0..n] ==
            IF i = 0 THEN [panic |-> NoPanic, meta |-> system_meta, state |-> <<>>]
            ELSE IF thread[i - 1].panic # NoPanic THEN thread[i - 1]
            ELSE LET r == SystemParam_init_state(world_archetypes, thread[i - 1].meta,
                                                 rev(members)[i])
                 IN IF r.panic # NoPanic
                    THEN [panic |-> r.panic, meta |-> r.meta, state |-> <<>>]
                    ELSE [panic |-> NoPanic, meta |-> r.meta,
                          state |-> Append(thread[i - 1].state, r.state)]
    IN IF thread[n].panic # NoPanic
       THEN [panic |-> thread[n].panic, meta |-> thread[n].meta, state |-> NoState]
       ELSE [panic |-> NoPanic, meta |-> thread[n].meta,
             state |-> [kind |-> "Tuple", members |-> rev(thread[n].state)]]

\* (($($param::init_state(_world, _system_meta),)*)): the members register
\* from the first to the last on the one SystemMeta; a panic unwinds.
Tuple_init_state(world_archetypes, system_meta, members) ==
    IF members = <<>>
    THEN [panic |-> NoPanic, meta |-> system_meta,
          state |-> [kind |-> "Tuple", members |-> <<>>]]
    ELSE LET n    == Len(members)
             init == Tuple_init_state(world_archetypes, system_meta,
                                      SubSeq(members, 1, n - 1))
             last == SystemParam_init_state(world_archetypes, init.meta, members[n])
         IN IF init.panic # NoPanic THEN init
            ELSE IF last.panic # NoPanic
            THEN [panic |-> last.panic, meta |-> last.meta, state |-> NoState]
            ELSE [panic |-> NoPanic, meta |-> last.meta,
                  state |-> [kind    |-> "Tuple",
                             members |-> Append(init.state.members, last.state)]]

(***************************************************************************)
(* Members of a tuple, threaded in declaration order.                      *)
(***************************************************************************)
RECURSIVE Tuple_new_archetype(_, _, _)
RECURSIVE SystemParam_new_archetype(_, _, _)
\* P::new_archetype(state, archetype, system_meta)
StaticSystemParam_new_archetype(state, archetype, system_meta) ==
    LET r == SystemParam_new_archetype(state.inner, archetype, system_meta)
    IN [state |-> [state EXCEPT !.inner = r.state], meta |-> r.meta]

SystemParam_new_archetype(state, archetype, system_meta) ==
    IF state.kind = "Query" THEN Query_new_archetype(state, archetype, system_meta)
    ELSE IF state.kind \in {"ParamSet", "Tuple"}
    THEN LET r == Tuple_new_archetype(state.members, archetype, system_meta)
         IN [state |-> [state EXCEPT !.members = r.state], meta |-> r.meta]
    ELSE IF state.kind = "Static"
    THEN StaticSystemParam_new_archetype(state, archetype, system_meta)
    ELSE [state |-> state, meta |-> system_meta]

Tuple_new_archetype(states, archetype, system_meta) ==
    IF states = <<>> THEN [state |-> <<>>, meta |-> system_meta]
    ELSE LET n    == Len(states)
             init == Tuple_new_archetype(SubSeq(states, 1, n - 1), archetype, system_meta)
             last == SystemParam_new_archetype(states[n], archetype, init.meta)
         IN [state |-> Append(init.state, last.state), meta |-> last.meta]

RECURSIVE Tuple_apply(_, _)
RECURSIVE SystemParam_apply(_, _)
\* The flush not passed on to the wrapped parameter.
StaticSystemParam_apply_Nothing(state, world_alarm) ==
    [state |-> state, alarm |-> world_alarm]

\* P::apply(state, system_meta, world)
StaticSystemParam_apply(state, world_alarm) ==
    LET r == SystemParam_apply(state.inner, world_alarm)
    IN [state |-> [state EXCEPT !.inner = r.state], alarm |-> r.alarm]

\* The flush that also puts a Local back to its initial value.
SystemParam_apply_ResetsLocal(state, world_alarm) ==
    IF state.kind = "Deferred" THEN Deferred_apply(state, world_alarm)
    ELSE IF state.kind = "DeferredSilence" THEN AlarmSilence_apply(state, world_alarm)
    ELSE IF state.kind = "Local"
    THEN [state |-> Local_init_state({}), alarm |-> world_alarm]
    ELSE IF state.kind = "Tuple"
    THEN LET r == Tuple_apply(state.members, world_alarm)
         IN [state |-> [state EXCEPT !.members = r.state], alarm |-> r.alarm]
    ELSE IF state.kind = "Static" THEN StaticSystemParam_apply(state, world_alarm)
    ELSE [state |-> state, alarm |-> world_alarm]

SystemParam_apply(state, world_alarm) ==
    IF state.kind = "Deferred" THEN Deferred_apply(state, world_alarm)
    ELSE IF state.kind = "DeferredSilence" THEN AlarmSilence_apply(state, world_alarm)
    ELSE IF state.kind = "Tuple"
    THEN LET r == Tuple_apply(state.members, world_alarm)
         IN [state |-> [state EXCEPT !.members = r.state], alarm |-> r.alarm]
    ELSE IF state.kind = "Static" THEN StaticSystemParam_apply(state, world_alarm)
    ELSE [state |-> state, alarm |-> world_alarm]

\* The members flushed from the last to the first.
Tuple_apply_ReverseOrder(states, world_alarm) ==
    LET n == Len(states)
        thread[i \in 0..n] ==
            IF i = 0 THEN [state |-> states, alarm |-> world_alarm]
            ELSE LET r == SystemParam_apply(states[n + 1 - i], thread[i - 1].alarm)
                 IN [state |-> [thread[i - 1].state EXCEPT ![n + 1 - i] = r.state],
                     alarm |-> r.alarm]
    IN thread[n]

Tuple_apply(states, world_alarm) ==
    IF states = <<>> THEN [state |-> <<>>, alarm |-> world_alarm]
    ELSE LET n    == Len(states)
             init == Tuple_apply(SubSeq(states, 1, n - 1), world_alarm)
             last == SystemParam_apply(states[n], init.alarm)
         IN [state |-> Append(init.state, last.state), alarm |-> last.alarm]

RECURSIVE Tuple_get_param(_, _)
RECURSIVE SystemParam_get_param(_, _)
\* P::get_param(state, system_meta, world, change_tick): its effect on the
\* State and on the world.
StaticSystemParam_get_param(state, world_alarm) ==
    LET r == SystemParam_get_param(state.inner, world_alarm)
    IN [state |-> [state EXCEPT !.inner = r.state], alarm |-> r.alarm]

SystemParam_get_param(state, world_alarm) ==
    IF state.kind = "Local"
    THEN [state |-> Local_get_param(state), alarm |-> world_alarm]
    ELSE IF state.kind = "Deferred" THEN Deferred_get_param(state, world_alarm)
    ELSE IF state.kind = "Tuple"
    THEN LET r == Tuple_get_param(state.members, world_alarm)
         IN [state |-> [state EXCEPT !.members = r.state], alarm |-> r.alarm]
    ELSE IF state.kind = "Static" THEN StaticSystemParam_get_param(state, world_alarm)
    ELSE [state |-> state, alarm |-> world_alarm]

Tuple_get_param(states, world_alarm) ==
    IF states = <<>> THEN [state |-> <<>>, alarm |-> world_alarm]
    ELSE LET n    == Len(states)
             init == Tuple_get_param(SubSeq(states, 1, n - 1), world_alarm)
             last == SystemParam_get_param(states[n], init.alarm)
         IN [state |-> Append(init.state, last.state), alarm |-> last.alarm]

(***************************************************************************)
(* The items that get_param hands to the body of the system.               *)
(***************************************************************************)
RECURSIVE SystemParam_item(_, _, _)
\* StaticSystemParam(P::get_param(state, system_meta, world, change_tick))
StaticSystemParam_item(state, system_meta, tick) ==
    [kind |-> "StaticSystemParam", f0 |-> SystemParam_item(state.inner, system_meta, tick)]

\* Deref for StaticSystemParam: &self.0
StaticSystemParam_deref(static_item) == static_item.f0

\* StaticSystemParam::into_inner: self.0
StaticSystemParam_into_inner(static_item) == static_item.f0

\* What the item of a parameter gives access to: the value of a Local, the
\* buffer of a Deferred, the ticks of a SystemChangeTick, the archetypes a
\* Query iterates, the world for &World, the items of the members of a tuple.
SystemParam_item(state, system_meta, tick) ==
    CASE state.kind = "Local" -> [kind |-> "Local", value |-> Local_deref(state)]
      [] state.kind = "Deferred" -> [kind |-> "Deferred", flag |-> state.flag]
      [] state.kind = "DeferredSilence" -> [kind |-> "Deferred", flag |-> state.flag]
      [] state.kind = "SystemChangeTick" -> SystemChangeTick_get_param(system_meta, tick)
      [] state.kind = "Query" -> [kind |-> "Query", matched |-> state.matched_archetypes]
      [] state.kind = "World" -> [kind |-> "World"]
      [] state.kind = "ParamSet" -> [kind |-> "ParamSet"]
      [] state.kind \in {"Archetypes", "Components", "Entities", "Bundles", "PhantomData"} ->
             [kind |-> state.kind]
      [] state.kind = "SystemName" -> SystemName_get_param(state, system_meta)
      [] state.kind = "Tuple" ->
             [kind  |-> "Tuple",
              items |-> [i \in DOMAIN state.members |->
                            SystemParam_item(state.members[i], system_meta, tick)]]
      [] state.kind = "Static" -> StaticSystemParam_item(state, system_meta, tick)

(***************************************************************************)
(* The state machine.                                                      *)
(***************************************************************************)
\* The systems that exist: with one system the other is never added.
InitWith(active) ==
    /\ archetypes = {EmptyArchetype}
    /\ alarm = FALSE
    /\ meta = [s \in Systems |-> SystemMeta_new(s)]
    /\ param_state = [s \in Systems |-> <<>>]
    /\ phase = [s \in Systems |-> IF s \in active THEN "init" ELSE "absent"]
    /\ panic = [s \in Systems |-> NoPanic]
    /\ alive = [s \in Systems |-> {}]
    /\ released = [s \in Systems |-> {}]
    /\ runs = [s \in Systems |-> 0]
    /\ item = [s \in Systems |-> <<>>]
    /\ obs = [s \in Systems |-> {}]
    /\ change_tick = 1
    /\ this_run = [s \in Systems |-> 0]
    /\ declared = [s \in Systems |-> <<>>]
    /\ render = NoRender

Init == InitWith({"X"})

InitTwo == InitWith(Systems)

CanDeclare(s) == phase[s] = "init" /\ Len(param_state[s]) < MaxParams

\* The panic recorded and the registration carried on.
Register_CarriesOn(s, p, r) ==
    /\ declared' = [declared EXCEPT ![s] = Append(@, p)]
    /\ meta' = [meta EXCEPT ![s] = r.meta]
    /\ panic' = [panic EXCEPT ![s] = r.panic]
    /\ param_state' = [param_state EXCEPT ![s] = Append(@, r.state)]
    /\ UNCHANGED <<phase, archetypes, alarm, alive, released, runs, item, obs, change_tick, this_run, render>>

\* One SystemMeta for every system: the outcome is written to all of them.
Register_SharedMeta(s, p, r) ==
    /\ declared' = [declared EXCEPT ![s] = Append(@, p)]
    /\ meta' = [t \in Systems |->
                   [r.meta EXCEPT !.name = meta[t].name, !.last_run = meta[t].last_run]]
    /\ IF r.panic = NoPanic
       THEN /\ param_state' = [param_state EXCEPT ![s] = Append(@, r.state)]
            /\ UNCHANGED <<phase, panic>>
       ELSE /\ phase' = [phase EXCEPT ![s] = "panicked"]
            /\ panic' = [panic EXCEPT ![s] = r.panic]
            /\ UNCHANGED param_state
    /\ UNCHANGED <<archetypes, alarm, alive, released, runs, item, obs, change_tick, this_run, render>>

\* The outcome r of the init_state of a parameter of type p on system s:
\* its State joins the system's tuple, or its panic aborts the registration
\* of the system.
Register(s, p, r) ==
    /\ declared' = [declared EXCEPT ![s] = Append(@, p)]
    /\ meta' = [meta EXCEPT ![s] = r.meta]
    /\ IF r.panic = NoPanic
       THEN /\ param_state' = [param_state EXCEPT ![s] = Append(@, r.state)]
            /\ UNCHANGED <<phase, panic>>
       ELSE /\ phase' = [phase EXCEPT ![s] = "panicked"]
            /\ panic' = [panic EXCEPT ![s] = r.panic]
            /\ UNCHANGED param_state
    /\ UNCHANGED <<archetypes, alarm, alive, released, runs, item, obs, change_tick, this_run, render>>

QueryInitState(s, q) ==
    /\ CanDeclare(s)
    /\ Register(s, QueryParam(q), Query_init_state(archetypes, meta[s], q))

WorldInitState(s) ==
    /\ CanDeclare(s)
    /\ Register(s, WorldParam, World_init_state(meta[s]))

ParamSetInitState(s, p0, p1) ==
    /\ CanDeclare(s)
    /\ Register(s, ParamSetParam(<<p0, p1>>),
                ParamSet_init_state(archetypes, meta[s], <<p0, p1>>))

LocalInitState(s) ==
    /\ CanDeclare(s)
    /\ Register(s, LocalParam, [panic |-> NoPanic, meta |-> meta[s],
                                state |-> Local_init_state(archetypes)])

\* The access of the mutation declared as a write by the buffer.
DeferredInitState_DeclaresWrite(s) ==
    /\ CanDeclare(s)
    /\ Register(s, DeferredParam,
                [panic |-> NoPanic,
                 meta  |-> [meta[s] EXCEPT !.archetype_component_access =
                                               Access_add_write(@, ResourceLocation(Alarm))],
                 state |-> Deferred_init_state(archetypes)])

DeferredInitState(s) ==
    /\ CanDeclare(s)
    /\ Register(s, DeferredParam, [panic |-> NoPanic, meta |-> meta[s],
                                   state |-> Deferred_init_state(archetypes)])

\* System::initialize returns: every parameter of the system has registered.
Initialized(s) ==
    /\ phase[s] = "init"
    /\ phase' = [phase EXCEPT ![s] = "ready"]
    /\ UNCHANGED <<archetypes, alarm, meta, param_state, panic, alive, released, runs, item, obs, change_tick, this_run, declared, render>>

NoneRunning == \A s \in Systems : phase[s] # "running"

\* The world creates an archetype (exclusive world access) and every system
\* refreshes its parameters for it.
NewArchetype(a) ==
    /\ NoneRunning
    /\ a \notin archetypes
    /\ Cardinality(archetypes) <= MaxArchetypes
    /\ archetypes' = archetypes \cup {a}
    /\ LET r(s) == Tuple_new_archetype(param_state[s], a, meta[s])
       IN /\ param_state' = [s \in Systems |->
                 IF phase[s] \in {"init", "ready"} THEN r(s).state ELSE param_state[s]]
          /\ meta' = [s \in Systems |->
                 IF phase[s] \in {"init", "ready"} THEN r(s).meta ELSE meta[s]]
    /\ UNCHANGED <<alarm, phase, panic, alive, released, runs, item, obs, change_tick, this_run, declared, render>>

\* The executor starts a system only when its access is compatible with
\* that of every system that is running.
Executor_can_run(s) ==
    \A t \in Systems :
        phase[t] = "running"
        => Access_is_compatible(meta[s].archetype_component_access,
                                meta[t].archetype_component_access)

\* A run of the system starts: the tuple's get_param materialises every item.
RunStart(s) ==
    /\ phase[s] = "ready"
    /\ runs[s] < MaxRuns
    /\ Executor_can_run(s)
    /\ LET r == Tuple_get_param(param_state[s], alarm)
       IN /\ param_state' = [param_state EXCEPT ![s] = r.state]
          /\ alarm' = r.alarm
          /\ item' = [item EXCEPT ![s] = [p \in DOMAIN r.state |->
                          IF r.state[p].kind = "Local" THEN {Local_deref(r.state[p])}
                          ELSE IF r.state[p].kind = "SystemChangeTick"
                          THEN {SystemChangeTick_get_param(meta[s], change_tick)}
                          ELSE IF r.state[p].kind \in {"Tuple", "Static", "SystemName"}
                          THEN {SystemParam_item(r.state[p], meta[s], change_tick)}
                          ELSE {}]]
    /\ phase' = [phase EXCEPT ![s] = "running"]
    /\ runs' = [runs EXCEPT ![s] = @ + 1]
    /\ this_run' = [this_run EXCEPT ![s] = change_tick]
    /\ UNCHANGED <<archetypes, meta, panic, alive, released, obs, change_tick, declared, render>>

\* The run ends: the items are dropped and the change tick of the run
\* becomes the system's last_run.
RunEnd(s) ==
    /\ phase[s] = "running"
    /\ alive[s] = {}
    /\ phase' = [phase EXCEPT ![s] = "ready"]
    /\ released' = [released EXCEPT ![s] = {}]
    /\ item' = [item EXCEPT ![s] = <<>>]
    /\ meta' = [meta EXCEPT ![s].last_run = this_run[s]]
    /\ UNCHANGED <<archetypes, alarm, param_state, panic, alive, runs, obs, change_tick, this_run, declared, render>>

IsParam(s, p, kind) ==
    /\ p \in DOMAIN param_state[s]
    /\ param_state[s][p].kind = kind

\* ParamSet::p0, p1: fn p<i>(&'a mut self) borrows the set exclusively for as
\* long as the returned item lives.
ParamSet_borrowed(s, p) == \E m \in alive[s] : m[1] = p

\* The member retrieved without borrowing the set.
ParamSetGet_Unborrowed(s, p, i) ==
    /\ phase[s] = "running"
    /\ IsParam(s, p, "ParamSet")
    /\ i \in DOMAIN param_state[s][p].members
    /\ alive' = [alive EXCEPT ![s] = @ \cup {<<p, i>>}]
    /\ UNCHANGED <<archetypes, alarm, meta, param_state, phase, panic, released, runs, item, obs, change_tick, this_run, declared, render>>

ParamSetGet(s, p, i) ==
    /\ phase[s] = "running"
    /\ IsParam(s, p, "ParamSet")
    /\ i \in DOMAIN param_state[s][p].members
    /\ ~ParamSet_borrowed(s, p)
    /\ alive' = [alive EXCEPT ![s] = @ \cup {<<p, i>>}]
    /\ UNCHANGED <<archetypes, alarm, meta, param_state, phase, panic, released, runs, item, obs, change_tick, this_run, declared, render>>

ParamSetDrop(s, p, i) ==
    /\ phase[s] = "running"
    /\ <<p, i>> \in alive[s]
    /\ alive' = [alive EXCEPT ![s] = @ \ {<<p, i>>}]
    /\ released' = [released EXCEPT ![s] = @ \cup {<<p, i>>}]
    /\ UNCHANGED <<archetypes, alarm, meta, param_state, phase, panic, runs, item, obs, change_tick, this_run, declared, render>>

\* The value the body of system s writes to its locals (write_to_local: 42).
LocalWriteValue(s) == IF s = "X" THEN 42 ELSE 7

\* The value written to the local at that position of every system.
LocalWrite_Shared(s, p, v) ==
    /\ phase[s] = "running"
    /\ IsParam(s, p, "Local")
    /\ param_state' = [t \in Systems |->
           IF IsParam(t, p, "Local")
           THEN [param_state[t] EXCEPT ![p] = Local_deref_mut(@, v)]
           ELSE param_state[t]]
    /\ UNCHANGED <<archetypes, alarm, meta, phase, panic, alive, released, runs, item, obs, change_tick, this_run, declared, render>>

\* The value written to every local of the system.
LocalWrite_AllOfSystem(s, p, v) ==
    /\ phase[s] = "running"
    /\ IsParam(s, p, "Local")
    /\ param_state' = [param_state EXCEPT ![s] = [j \in DOMAIN @ |->
           IF @[j].kind = "Local" THEN Local_deref_mut(@[j], v) ELSE @[j]]]
    /\ UNCHANGED <<archetypes, alarm, meta, phase, panic, alive, released, runs, item, obs, change_tick, this_run, declared, render>>

\* *local = v
LocalWrite(s, p, v) ==
    /\ phase[s] = "running"
    /\ IsParam(s, p, "Local")
    /\ param_state' = [param_state EXCEPT ![s][p] = Local_deref_mut(@, v)]
    /\ UNCHANGED <<archetypes, alarm, meta, phase, panic, alive, released, runs, item, obs, change_tick, this_run, declared, render>>

\* *local
LocalRead(s, p) ==
    /\ phase[s] = "running"
    /\ IsParam(s, p, "Local")
    /\ obs' = [obs EXCEPT ![s] = {Local_deref(param_state[s][p])}]
    /\ UNCHANGED <<archetypes, alarm, meta, param_state, phase, panic, alive, released, runs, item, change_tick, this_run, declared, render>>

SystemChangeTickInitState(s) ==
    /\ CanDeclare(s)
    /\ Register(s, SystemChangeTickParam,
                [panic |-> NoPanic, meta |-> meta[s],
                 state |-> SystemChangeTick_init_state(archetypes)])

\* World::increment_change_tick
IncrementChangeTick ==
    /\ change_tick < MaxTick
    /\ change_tick' = change_tick + 1
    /\ UNCHANGED <<archetypes, alarm, meta, param_state, phase, panic, alive, released,
                   runs, item, obs, this_run, declared, render>>

\* The members a system places in the tuple that is its parameter.
TupleMembers ==
    {QueryParam(QMutHealthWithEnemy), QueryParam(QMutHealthWithoutEnemy),
     QueryParam(QRefHealth), WorldParam, LocalParam, DeferredParam}

Tuples == UNION {[1..n -> TupleMembers] : n \in 0..MaxTuple}

\* The system declares one parameter: the tuple of its parameters.
CanDeclareOne(s) == phase[s] = "init" /\ param_state[s] = <<>>

TupleInitState(s, members) ==
    /\ CanDeclareOne(s)
    /\ Register(s, TupleParam(members),
                SystemParam_init_state(archetypes, meta[s], TupleParam(members)))

\* The system declares the same tuple through StaticSystemParam.
StaticInitState(s, members) ==
    /\ CanDeclareOne(s)
    /\ Register(s, StaticParam(TupleParam(members)),
                SystemParam_init_state(archetypes, meta[s], StaticParam(TupleParam(members))))

\* The tuple State of the system's parameter, behind the StaticSystemParam if any.
TupleState(s) ==
    IF param_state[s][1].kind = "Static" THEN param_state[s][1].inner ELSE param_state[s][1]

\* alarm.flag() on the Deferred that is member i of the system's tuple.
BufferFlag(s, i) ==
    /\ phase[s] = "running"
    /\ param_state[s] # <<>>
    /\ param_state[s][1].kind \in {"Tuple", "Static"}
    /\ i \in DOMAIN TupleState(s).members
    /\ TupleState(s).members[i].kind \in BufferKinds
    /\ param_state' =
           IF param_state[s][1].kind = "Static"
           THEN [param_state EXCEPT ![s][1].inner.members[i] = AlarmFlag_flag(@)]
           ELSE [param_state EXCEPT ![s][1].members[i] = AlarmFlag_flag(@)]
    /\ UNCHANGED <<archetypes, alarm, meta, phase, panic, alive, released, runs, item, obs,
                   change_tick, this_run, declared, render>>

\* The parameter kinds a system declares side by side.
KindParams ==
    {QueryParam(QMutHealthWithEnemy), QueryParam(QRefHealth), WorldParam, LocalParam,
     DeferredParam, ArchetypesParam, ComponentsParam, EntitiesParam, BundlesParam,
     SystemChangeTickParam, SystemNameParam, PhantomDataParam}

\* P::init_state(world, system_meta) for the next parameter of the system.
ParamInitState(s, p) ==
    /\ CanDeclare(s)
    /\ Register(s, p, SystemParam_init_state(archetypes, meta[s], p))

ResMutInitState(s) ==
    /\ CanDeclare(s)
    /\ Register(s, ResMutParam, ResMut_init_state(meta[s]))

\* alarm.0 = true
ResMutWrite(s, p) ==
    /\ phase[s] = "running"
    /\ IsParam(s, p, "ResMut")
    /\ alarm' = TRUE
    /\ UNCHANGED <<archetypes, meta, param_state, phase, panic, alive, released, runs, item,
                   obs, change_tick, this_run, declared, render>>

\* alarm.flag()
DeferredFlag(s, p) ==
    /\ phase[s] = "running"
    /\ IsParam(s, p, "Deferred")
    /\ param_state' = [param_state EXCEPT ![s][p] = AlarmFlag_flag(@)]
    /\ UNCHANGED <<archetypes, alarm, meta, phase, panic, alive, released, runs, item, obs, change_tick, this_run, declared, render>>

\* apply_deferred: the tuple's apply, with exclusive access to the world.
Apply(s) ==
    /\ NoneRunning
    /\ phase[s] = "ready"
    /\ LET r == Tuple_apply(param_state[s], alarm)
       IN /\ param_state' = [param_state EXCEPT ![s] = r.state]
          /\ alarm' = r.alarm
    /\ UNCHANGED <<archetypes, meta, phase, panic, alive, released, runs, item, obs, change_tick, this_run, declared, render>>

\* world.resource_mut::<Alarm>().0 = false
ResetAlarm ==
    /\ NoneRunning
    /\ alarm
    /\ alarm' = FALSE
    /\ UNCHANGED <<archetypes, meta, param_state, phase, panic, alive, released, runs, item, obs, change_tick, this_run, declared, render>>

ParamIndex == 1..(MaxParams + 1)

\* Registration of queries, &World and ParamSets on one system, archetype
\* creation, and runs that use the ParamSets.
Next ==
    \/ \E s \in Systems, q \in QueryTypes : QueryInitState(s, q)
    \/ \E s \in Systems : WorldInitState(s)
    \/ \E s \in Systems, p0 \in SetMembers, p1 \in SetMembers : ParamSetInitState(s, p0, p1)
    \/ \E s \in Systems : Initialized(s)
    \/ \E a \in ArchetypeUniverse : NewArchetype(a)
    \/ \E s \in Systems : RunStart(s)
    \/ \E s \in Systems, p \in ParamIndex, i \in 1..2 : ParamSetGet(s, p, i)
    \/ \E s \in Systems, p \in ParamIndex, i \in 1..2 : ParamSetDrop(s, p, i)
    \/ \E s \in Systems : RunEnd(s)

Spec == Init /\ [][Next]_vars

\* Two systems that declare Locals and run interleaved.
NextLocal ==
    \/ \E s \in Systems : LocalInitState(s)
    \/ \E s \in Systems : Initialized(s)
    \/ \E s \in Systems : RunStart(s)
    \/ \E s \in Systems, p \in ParamIndex : LocalWrite(s, p, LocalWriteValue(s))
    \/ \E s \in Systems, p \in ParamIndex : LocalRead(s, p)
    \/ \E s \in Systems : RunEnd(s)

SpecLocal == InitTwo /\ [][NextLocal]_vars

\* Two systems that declare Deferred<AlarmFlag> buffers, run interleaved and
\* are flushed at synchronisation points.
NextDeferred ==
    \/ \E s \in Systems : DeferredInitState(s)
    \/ \E s \in Systems : Initialized(s)
    \/ \E s \in Systems : RunStart(s)
    \/ \E s \in Systems, p \in ParamIndex : DeferredFlag(s, p)
    \/ \E s \in Systems : RunEnd(s)
    \/ \E s \in Systems : Apply(s)
    \/ ResetAlarm

SpecDeferred == InitTwo /\ [][NextDeferred]_vars

\* Two systems that read their change ticks, while the world advances its
\* change tick.
NextTick ==
    \/ \E s \in Systems : SystemChangeTickInitState(s)
    \/ \E s \in Systems : Initialized(s)
    \/ IncrementChangeTick
    \/ \E s \in Systems : RunStart(s)
    \/ \E s \in Systems : RunEnd(s)

SpecTick == InitTwo /\ [][NextTick]_vars

\* One system whose parameter is a tuple, declared as it is or through
\* StaticSystemParam; archetype creation, runs and flushes.
NextCompose ==
    \/ \E s \in Systems : CanDeclareOne(s) /\ \E members \in Tuples : TupleInitState(s, members)
    \/ \E s \in Systems : CanDeclareOne(s) /\ \E members \in Tuples : StaticInitState(s, members)
    \/ \E s \in Systems : Initialized(s)
    \/ \E a \in ArchetypeUniverse : NewArchetype(a)
    \/ \E s \in Systems : RunStart(s)
    \/ \E s \in Systems, i \in 1..MaxTuple : BufferFlag(s, i)
    \/ \E s \in Systems : RunEnd(s)
    \/ \E s \in Systems : Apply(s)

SpecCompose == Init /\ [][NextCompose]_vars

\* Two systems that sound the alarm, through a Deferred<AlarmFlag> or
\* directly through ResMut<Alarm>, run by the executor and flushed at
\* synchronisation points.
NextParallel ==
    \/ \E s \in Systems : DeferredInitState(s)
    \/ \E s \in Systems : ResMutInitState(s)
    \/ \E s \in Systems : Initialized(s)
    \/ \E s \in Systems : RunStart(s)
    \/ \E s \in Systems, p \in ParamIndex : DeferredFlag(s, p)
    \/ \E s \in Systems, p \in ParamIndex : ResMutWrite(s, p)
    \/ \E s \in Systems : RunEnd(s)
    \/ \E s \in Systems : Apply(s)
    \/ ResetAlarm

SpecParallel == InitTwo /\ [][NextParallel]_vars

\* One system that declares parameters of every kind; archetype creation,
\* runs and flushes.
NextKinds ==
    \/ \E s \in Systems, p \in KindParams : ParamInitState(s, p)
    \/ \E s \in Systems : Initialized(s)
    \/ \E a \in ArchetypeUniverse : NewArchetype(a)
    \/ \E s \in Systems : RunStart(s)
    \/ \E s \in Systems, p \in ParamIndex : DeferredFlag(s, p)
    \/ \E s \in Systems, p \in ParamIndex : LocalWrite(s, p, LocalWriteValue(s))
    \/ \E s \in Systems : RunEnd(s)
    \/ \E s \in Systems : Apply(s)

SpecKinds == Init /\ [][NextKinds]_vars

\* The queries that two systems declare, each on its own SystemMeta.
SharedQueries == {QMutHealth, QRefHealth}

\* Two systems that declare queries on the same component, archetype
\* creation, and runs started by the executor.
NextShared ==
    \/ \E s \in Systems, q \in SharedQueries : QueryInitState(s, q)
    \/ \E s \in Systems : Initialized(s)
    \/ \E a \in ArchetypeUniverse : NewArchetype(a)
    \/ \E s \in Systems : RunStart(s)
    \/ \E s \in Systems : RunEnd(s)

SpecShared == InitTwo /\ [][NextShared]_vars

\* The members of a tuple of buffers.
OrderMembers == {DeferredParam, SilenceParam, LocalParam, QueryParam(QRefHealth)}

OrderTuples == UNION {[1..n -> OrderMembers] : n \in 0..MaxTuple}

\* One system whose parameter is a tuple of Deferred buffers that sound or
\* silence the alarm; archetype creation, runs and flushes.
NextOrder ==
    \/ \E s \in Systems : CanDeclareOne(s) /\ \E members \in OrderTuples : TupleInitState(s, members)
    \/ \E s \in Systems : Initialized(s)
    \/ \E a \in ArchetypeUniverse : NewArchetype(a)
    \/ \E s \in Systems : RunStart(s)
    \/ \E s \in Systems, i \in 1..MaxTuple : BufferFlag(s, i)
    \/ \E s \in Systems : RunEnd(s)
    \/ \E s \in Systems : Apply(s)
    \/ ResetAlarm

SpecOrder == Init /\ [][NextOrder]_vars

(***************************************************************************)
(* Properties.                                                             *)
(***************************************************************************)
\* The queries a system has registered as parameters of its own (outside any ParamSet).
TopQueries(s) == {i \in DOMAIN param_state[s] : param_state[s][i].kind = "Query"}

\* The components that query type q and an already registered query of
\* system s both write in one archetype of the world (one storage location).
SharedWrites(s, q) ==
    {c \in ComponentIds :
        \E i \in TopQueries(s), a \in archetypes :
            /\ ArchetypeComponentId(a, c) \in
                   param_state[s][i].archetype_component_access.writes
            /\ ArchetypeComponentId(a, c) \in
                   QueryState_new(archetypes, q).archetype_component_access.writes}

\* The query type named by the B0001 panic of system s.
PanickedQuery(s) ==
    CHOOSE q \in QueryTypes :
        q.query_type = panic[s].query_type /\ q.filter_type = panic[s].filter_type

\* C1: when a system registers a query that writes a component in an
\* archetype in which an earlier query of the system (outside any ParamSet)
\* writes it too, init_state of the later query aborts the registration with
\* error B0001, and the error names the component, the query type, the
\* filter type and the system; the query does not join the parameters.
C1_SameLocationWritersAbort ==
    [][\A s \in Systems, q \in QueryTypes :
          (QueryInitState(s, q) /\ SharedWrites(s, q) # {})
          => /\ phase'[s] = "panicked"
             /\ panic'[s].kind = "B0001"
             /\ panic'[s].query_type = q.query_type
             /\ panic'[s].filter_type = q.filter_type
             /\ panic'[s].system_name = meta[s].name
             /\ \A c \in SharedWrites(s, q) :
                    Components_get_info_name(c) \in panic'[s].accesses
             /\ param_state'[s] = param_state[s]]_vars

C1_Witness ==
    \E s \in Systems :
        /\ phase[s] = "panicked"
        /\ panic[s].kind = "B0001"
        /\ "Health" \in panic[s].accesses
        /\ Health \in SharedWrites(s, PanickedQuery(s))

\* Whether two query parameters conflict with each other: both write one component
\* and their filters do not exclude each other.
MutuallyConflicting(p0, p1) ==
    /\ p0.kind = "Query" /\ p1.kind = "Query"
    /\ p0.q.component_access.access.writes \cap p1.q.component_access.access.writes # {}
    /\ ~FilteredAccess_is_compatible(p0.q.component_access, p1.q.component_access)

\* The components on which query type q conflicts with what system s has accumulated.
ConflictsWithSystem(s, q) ==
    FilteredAccessSet_get_conflicts_single(meta[s].component_access_set, q.component_access)

\* C2: a ParamSet of two queries that conflict with each other (both write
\* one component), neither of which conflicts with the parameters the
\* system registered before, registers without a panic and joins the parameters; and in a run, once
\* member 0 has been retrieved and released, member 1 can be retrieved.
C2_Registers ==
    \A s \in Systems, p0 \in SetMembers, p1 \in SetMembers :
        (/\ ParamSetInitState(s, p0, p1)
         /\ MutuallyConflicting(p0, p1)
         /\ ConflictsWithSystem(s, p0.q) = {}
         /\ ConflictsWithSystem(s, p1.q) = {})
        => /\ phase'[s] = "init"
           /\ panic'[s] = NoPanic
           /\ Len(param_state'[s]) = Len(param_state[s]) + 1
           /\ param_state'[s][Len(param_state'[s])].kind = "ParamSet"

C2_SecondMemberAvailable ==
    \A s \in Systems : \A p \in DOMAIN param_state[s] :
        (/\ phase[s] = "running"
         /\ <<p, 1>> \in released[s]
         /\ ~ParamSet_borrowed(s, p))
        => ENABLED ParamSetGet(s, p, 2)

C2_ParamSetOfConflictingQueries == [][C2_Registers]_vars /\ []C2_SecondMemberAvailable

C2_Witness ==
    \E s \in Systems : \E p \in DOMAIN param_state[s] :
        /\ phase[s] = "running"
        /\ param_state[s][p].kind = "ParamSet"
        /\ \A i \in 1..2 : param_state[s][p].members[i].kind = "Query"
        /\ ~FilteredAccess_is_compatible(param_state[s][p].members[1].component_access,
                                         param_state[s][p].members[2].component_access)
        /\ <<p, 1>> \in released[s]
        /\ <<p, 2>> \in alive[s]

\* C3: in every state of a run at most one member item of a ParamSet is
\* alive.
C3_OneMemberAlive ==
    \A s \in Systems : \A p \in DOMAIN param_state[s] :
        Cardinality({m \in alive[s] : m[1] = p}) <= 1

C3_Witness ==
    \E s \in Systems : \E p \in DOMAIN param_state[s] :
        /\ phase[s] = "running"
        /\ <<p, 2>> \in alive[s]
        /\ <<p, 1>> \notin alive[s]
        /\ <<p, 1>> \in released[s]
        /\ ~ENABLED ParamSetGet(s, p, 1)

\* The storage locations a parameter's item can read, and those it can
\* write: a query's are those of its state, &World reads every location of
\* the world, a ParamSet's are those of its members.
WorldLocations == {ArchetypeComponentId(a, c) : a \in archetypes, c \in ComponentIds}

MemberReads(state) ==
    IF state.kind = "Query" THEN state.archetype_component_access.reads_and_writes
    ELSE IF state.kind = "World" THEN {l \in WorldLocations : l[2] \in l[1]}
    ELSE {}

MemberWrites(state) ==
    IF state.kind = "Query" THEN state.archetype_component_access.writes ELSE {}

ParamReads(state) ==
    IF state.kind = "ParamSet" THEN UNION {MemberReads(m) : m \in Range(state.members)}
    ELSE MemberReads(state)

ParamWrites(state) ==
    IF state.kind = "ParamSet" THEN UNION {MemberWrites(m) : m \in Range(state.members)}
    ELSE MemberWrites(state)

\* C4: of two parameters registered on one system (not two members of one
\* ParamSet), whatever archetypes have been created since, none can write
\* a storage location that the other can read or write.
C4_NoSharedWritableLocation ==
    \A s \in Systems :
        phase[s] \in {"init", "ready", "running"}
        => \A i \in DOMAIN param_state[s], j \in DOMAIN param_state[s] :
               i # j => ParamWrites(param_state[s][i]) \cap ParamReads(param_state[s][j]) = {}

C4_Witness ==
    \E s \in Systems :
        /\ phase[s] = "running"
        /\ Cardinality(archetypes) > MaxArchetypes
        /\ \E i \in TopQueries(s), j \in TopQueries(s) :
               /\ i # j
               /\ ParamWrites(param_state[s][i]) # {}
               /\ ParamWrites(param_state[s][j]) # {}

\* The registered query writes a component that q writes too.
WritesSameComponent(state, q) ==
    state.component_access.access.writes \cap q.component_access.access.writes # {}

\* C5 as stated: when a system with one query registers a second query that
\* writes the same component, each of the two matches archetypes of the
\* world and no archetype of the world is matched by both, the registration
\* does not abort.
C5_DisjointArchetypesRegister ==
    [][\A s \in Systems, q \in QueryTypes :
          (/\ QueryInitState(s, q)
           /\ Len(param_state[s]) = 1
           /\ param_state[s][1].kind = "Query"
           /\ WritesSameComponent(param_state[s][1], q)
           /\ \E a \in archetypes : QueryState_matches(param_state[s][1].component_access, a)
           /\ \E a \in archetypes : QueryState_matches(q.component_access, a)
           /\ ~\E a \in archetypes :
                  /\ QueryState_matches(param_state[s][1].component_access, a)
                  /\ QueryState_matches(q.component_access, a))
          => phase'[s] # "panicked"]_vars

\* Every filter set of one access excludes every filter set of the other:
\* one requires a component that the other excludes.
FiltersExclude(fa, other) ==
    \A f \in fa.filter_sets, g \in other.filter_sets :
        \/ f.with \cap g.without # {}
        \/ g.with \cap f.without # {}

\* C5 amended: when a system with one query registers a second query that
\* writes the same component, and the filters of the two queries exclude
\* each other (one requires a component that the other excludes), the
\* registration does not abort and the query joins the parameters.
C5_ExcludingFiltersRegister ==
    [][\A s \in Systems, q \in QueryTypes :
          (/\ QueryInitState(s, q)
           /\ Len(param_state[s]) = 1
           /\ param_state[s][1].kind = "Query"
           /\ WritesSameComponent(param_state[s][1], q)
           /\ FiltersExclude(param_state[s][1].component_access, q.component_access))
          => /\ phase'[s] = "init"
             /\ Len(param_state'[s]) = 2]_vars

C5_Witness ==
    \E s \in Systems :
        /\ phase[s] = "ready"
        /\ Len(param_state[s]) = 2
        /\ param_state[s][1].kind = "Query"
        /\ param_state[s][2].kind = "Query"
        /\ Health \in param_state[s][1].component_access.access.writes
        /\ Health \in param_state[s][2].component_access.access.writes
        /\ FiltersExclude(param_state[s][1].component_access,
                          param_state[s][2].component_access)

\* Whether a buffer of the tuple holds a queued mutation.
Flagged(states) == \E p \in DOMAIN states : states[p].kind = "Deferred" /\ states[p].flag

\* C6: the alarm resource of the world changes only in a flush (apply) of a
\* system that holds a queued mutation, or when the world resets it; the
\* start of a run (get_param), the queuing of a mutation and the end of a
\* run leave the world as it is, and get_param leaves the buffers as they are.
C6_VisibleOnlyAtFlush ==
    [][/\ alarm' # alarm
          => \/ ResetAlarm
             \/ \E s \in Systems : Apply(s) /\ Flagged(param_state[s])
       /\ \A s \in Systems :
              /\ RunStart(s) => alarm' = alarm /\ param_state' = param_state
              /\ RunEnd(s) => alarm' = alarm
              /\ \A p \in ParamIndex : DeferredFlag(s, p) => alarm' = alarm]_vars

C6_Witness ==
    \E s \in Systems :
        /\ runs[s] = 2
        /\ phase[s] = "ready"
        /\ Flagged(param_state[s])
        /\ ~alarm

\* C7: a flush leaves every buffer of the system cleared; it sounds the
\* alarm when a mutation was queued, and when none was queued (a second
\* flush) it changes neither the world nor the buffers.
C7_FlushAppliesOnceAndClears ==
    [][\A s \in Systems :
          Apply(s)
          => /\ ~Flagged(param_state'[s])
             /\ Flagged(param_state[s]) => alarm'
             /\ ~Flagged(param_state[s]) => alarm' = alarm /\ param_state' = param_state]_vars

C7_Witness ==
    /\ alarm
    /\ \A s \in Systems : phase[s] = "ready" /\ ~Flagged(param_state[s])
    /\ \E s \in Systems : runs[s] > 0 /\ param_state[s] # <<>>

\* A step taken by system t in the specification of the locals.
LocalStep(t) ==
    \/ LocalInitState(t)
    \/ Initialized(t)
    \/ RunStart(t)
    \/ RunEnd(t)
    \/ \E p \in ParamIndex : LocalWrite(t, p, LocalWriteValue(t)) \/ LocalRead(t, p)

\* The values a system can have seen through its locals.
Seen(s) == obs[s] \cup UNION {item[s][p] : p \in DOMAIN item[s]}

\* C8: a system sees through its locals only the initial value and the
\* values it wrote itself, never a value written by the other system; and
\* no step of one system changes the locals of the other or what it saw.
C8_LocalsNotShared ==
    /\ [](\A s \in Systems : Seen(s) \subseteq {FromWorld_usize, LocalWriteValue(s)})
    /\ [][\A s \in Systems, t \in Systems :
             (s # t /\ LocalStep(t))
             => /\ param_state'[s] = param_state[s]
                /\ obs'[s] = obs[s]
                /\ item'[s] = item[s]]_vars

C8_Witness ==
    /\ runs["X"] = 2
    /\ phase["X"] = "running"
    /\ 1 \in DOMAIN item["X"]
    /\ LocalWriteValue("X") \in item["X"][1]
    /\ runs["Y"] > 0
    /\ obs["Y"] = {FromWorld_usize}

\* The values of the locals of a tuple, as get_param hands them out.
LocalValues(states) ==
    [p \in DOMAIN states |->
        IF states[p].kind = "Local" THEN {Local_deref(states[p])} ELSE {}]

\* C9: a local holds the value of from_world until the first run of its
\* system; the items of a run hold the values the locals had when it
\* started, get_param leaves the state as it is, and a local changes only
\* when its own system writes it during a run.
C9_LocalPersists ==
    /\ [](\A s \in Systems : \A p \in DOMAIN param_state[s] :
             (runs[s] = 0 \/ (runs[s] = 1 /\ item[s] # <<>>))
             => /\ runs[s] = 0 => Local_deref(param_state[s][p]) = FromWorld_usize
                /\ runs[s] = 1 => item[s][p] = {FromWorld_usize})
    /\ [][\A s \in Systems :
             /\ RunStart(s)
                => /\ item'[s] = LocalValues(param_state[s])
                   /\ param_state'[s] = param_state[s]
             /\ \A p \in DOMAIN param_state[s] :
                    param_state'[s][p] # param_state[s][p]
                    => LocalWrite(s, p, LocalWriteValue(s))]_vars

C9_Witness ==
    \E s \in Systems :
        /\ runs[s] = 2
        /\ phase[s] = "running"
        /\ 1 \in DOMAIN item[s]
        /\ item[s][1] = {LocalWriteValue(s)}

\* C10: a write through one local of a system leaves every other local of
\* that system as it was.
C10_DistinctStorage ==
    [][\A s \in Systems, p \in ParamIndex :
          LocalWrite(s, p, LocalWriteValue(s))
          => \A j \in DOMAIN param_state[s] :
                 j # p => param_state'[s][j] = param_state[s][j]]_vars

C10_Witness ==
    \E s \in Systems :
        /\ phase[s] = "running"
        /\ Len(param_state[s]) >= 2
        /\ Local_deref(param_state[s][1]) = LocalWriteValue(s)
        /\ Local_deref(param_state[s][2]) = FromWorld_usize
        /\ obs[s] = {FromWorld_usize}

\* The SystemChangeTick items of the current run of system s.
ChangeTickItems(s) ==
    UNION {item[s][p] : p \in {i \in DOMAIN item[s] : param_state[s][i].kind = "SystemChangeTick"}}

\* C11: when a run of a system starts at change tick T of the world and the
\* system's metadata records last_run = T0 < T, every SystemChangeTick item
\* of the run reports last_run = T0 and this_run = T; T0 is the change tick
\* the system's previous run was given (0 before its first run).
C11_TickSnapshot ==
    /\ [][\A s \in Systems :
             (RunStart(s) /\ meta[s].last_run < change_tick)
             => \A p \in DOMAIN param_state[s] :
                    param_state[s][p].kind = "SystemChangeTick"
                    => item'[s][p] = {[last_run |-> meta[s].last_run,
                                       this_run |-> change_tick]}]_vars
    /\ [](\A s \in Systems :
             phase[s] = "running"
             => /\ runs[s] = 1 => meta[s].last_run = 0
                /\ \A t \in ChangeTickItems(s) :
                       t.last_run = meta[s].last_run /\ t.this_run = this_run[s])

C11_Witness ==
    \E s \in Systems :
        /\ phase[s] = "running"
        /\ runs[s] = 2
        /\ [last_run |-> 2, this_run |-> 4] \in ChangeTickItems(s)

\* What system s has declared so far.
Declared(s) == meta[s].component_access_set.combined_access

\* Whether a parameter type declares write access to a component.
DeclaresWrite(p) == p.kind = "Query" /\ Access_has_any_write(p.q.component_access.access)

TopWorlds(s) == {i \in DOMAIN param_state[s] : param_state[s][i].kind = "World"}

TopWriters(s) ==
    {i \in TopQueries(s) : Access_has_any_write(param_state[s][i].component_access.access)}

\* C13: &World registered after a writing query of the system (outside any
\* ParamSet) aborts the registration, and so does a writing query
\* registered after &World; a ParamSet of &World and a writing query
\* registers when the system declared no parameter before it; and a
\* successful registration of &World leaves the read-all marker in
\* component_access_set and in archetype_component_access.
C13_WorldAndWriter ==
    [][\A s \in Systems :
          /\ (WorldInitState(s) /\ TopWriters(s) # {})
             => phase'[s] = "panicked" /\ panic'[s] = WorldPanic
          /\ \A q \in QueryTypes :
                 (QueryInitState(s, q) /\ TopWorlds(s) # {} /\ DeclaresWrite(QueryParam(q)))
                 => phase'[s] = "panicked" /\ panic'[s].kind = "B0001"
          /\ \A p0 \in SetMembers, p1 \in SetMembers :
                 (/\ ParamSetInitState(s, p0, p1)
                  /\ param_state[s] = <<>>
                  /\ WorldParam \in {p0, p1}
                  /\ DeclaresWrite(p0) \/ DeclaresWrite(p1))
                 => /\ phase'[s] = "init"
                    /\ panic'[s] = NoPanic
                    /\ Len(param_state'[s]) = 1
          /\ (WorldInitState(s) /\ phase'[s] = "init")
             => /\ meta'[s].component_access_set.combined_access.reads_all
                /\ FilteredAccess_read_all(FilteredAccess_default)
                       \in Range(meta'[s].component_access_set.filtered_accesses)
                /\ meta'[s].archetype_component_access.reads_all]_vars

C13_Witness ==
    \E s \in Systems :
        /\ phase[s] = "ready"
        /\ Len(param_state[s]) = 1
        /\ param_state[s][1].kind = "ParamSet"
        /\ param_state[s][1].members[1].kind = "World"
        /\ param_state[s][1].members[2].kind = "Query"
        /\ param_state[s][1].members[2].archetype_component_access.writes # {}
        /\ meta[s].archetype_component_access.reads_all
        /\ meta[s].component_access_set.combined_access.reads_all

\* The access a parameter type declares, and the access a registered
\* member of a ParamSet declared.
DeclaredAccess(p) ==
    IF p.kind = "Query" THEN p.q.component_access
    ELSE FilteredAccess_read_all(FilteredAccess_default)

StateAccess(state) ==
    IF state.kind = "Query" THEN state.component_access
    ELSE FilteredAccess_read_all(FilteredAccess_default)

\* The members of the ParamSets that system s has registered.
SetMemberStates(s) ==
    UNION {Range(param_state[s][i].members) :
              i \in {j \in DOMAIN param_state[s] : param_state[s][j].kind = "ParamSet"}}

\* C14: a ParamSet that registers leaves in the system's metadata the
\* access it had before joined with the accesses of both members; and a
\* query or &World registered later on the system that conflicts with a
\* member of a registered ParamSet aborts the registration.
C14_ParamSetUnionBlocks ==
    [][\A s \in Systems :
          /\ \A p0 \in SetMembers, p1 \in SetMembers :
                 (ParamSetInitState(s, p0, p1) /\ phase'[s] = "init")
                 => /\ meta'[s].component_access_set.combined_access =
                           Access_extend(Declared(s),
                               Access_extend(DeclaredAccess(p0).access,
                                             DeclaredAccess(p1).access))
                    /\ meta'[s].component_access_set.filtered_accesses =
                           meta[s].component_access_set.filtered_accesses
                               \o <<DeclaredAccess(p0), DeclaredAccess(p1)>>
                    /\ \A m \in Range(param_state'[s][Len(param_state'[s])].members) :
                           m.kind = "Query"
                           => /\ m.archetype_component_access.reads_and_writes
                                     \subseteq meta'[s].archetype_component_access.reads_and_writes
                              /\ m.archetype_component_access.writes
                                     \subseteq meta'[s].archetype_component_access.writes
          /\ \A q \in QueryTypes :
                 (/\ QueryInitState(s, q)
                  /\ \E m \in SetMemberStates(s) :
                         ~FilteredAccess_is_compatible(StateAccess(m), q.component_access))
                 => phase'[s] = "panicked" /\ panic'[s].kind = "B0001"
          /\ (/\ WorldInitState(s)
              /\ \E m \in SetMemberStates(s) :
                     Access_has_any_write(StateAccess(m).access))
             => phase'[s] = "panicked" /\ panic'[s] = WorldPanic]_vars

C14_Witness ==
    \E s \in Systems :
        /\ phase[s] = "panicked"
        /\ panic[s].kind = "B0001"
        /\ panic[s].query_type = "&Health"
        /\ TopQueries(s) = {}
        /\ \E m \in SetMemberStates(s) : m.kind = "Query" /\ m.filter_type = "With<Ally>"
        /\ Cardinality(archetypes) > 1

\* Whether a parameter type conflicts with what system s has accumulated.
ConflictsWithEarlier(s, p) ==
    IF p.kind = "Query" THEN ConflictsWithSystem(s, p.q) # {}
    ELSE Access_has_any_write(Declared(s))

\* C15: a ParamSet aborts the registration exactly when one of its members
\* conflicts with the access the system accumulated before the set; two
\* members that conflict with each other but not with that access register.
C15_MembersCheckedAgainstEarlierOnly ==
    [][\A s \in Systems, p0 \in SetMembers, p1 \in SetMembers :
          ParamSetInitState(s, p0, p1)
          => IF ConflictsWithEarlier(s, p0) \/ ConflictsWithEarlier(s, p1)
             THEN /\ phase'[s] = "panicked"
                  /\ panic'[s] # NoPanic
                  /\ param_state'[s] = param_state[s]
             ELSE /\ phase'[s] = "init"
                  /\ panic'[s] = NoPanic
                  /\ param_state'[s][Len(param_state[s]) + 1].kind = "ParamSet"]_vars

C15_Witness ==
    \E s \in Systems :
        /\ phase[s] = "ready"
        /\ Len(param_state[s]) = 2
        /\ param_state[s][1].kind = "Query"
        /\ param_state[s][1].archetype_component_access.writes # {}
        /\ param_state[s][2].kind = "ParamSet"
        /\ \A i \in 1..2 :
               /\ param_state[s][2].members[i].kind = "Query"
               /\ param_state[s][2].members[i].archetype_component_access.writes # {}
        /\ ~FilteredAccess_is_compatible(param_state[s][2].members[1].component_access,
                                         param_state[s][2].members[2].component_access)

\* The members of the tuple that system s declared as its parameter
\* (directly or through StaticSystemParam), after the step.
DeclaredTuple(s) ==
    IF declared'[s][1].kind = "Static" THEN declared'[s][1].p.members
    ELSE declared'[s][1].members

\* A step in which system s registers its tuple.
RegistersTuple(s) == declared[s] = <<>> /\ declared'[s] # <<>>

DeclaresAccess(p) == p.kind \in {"Query", "World"}

\* The accesses that the members of a tuple declare, in declaration order.
RECURSIVE DeclaredAccesses(_)
DeclaredAccesses(members) ==
    IF members = <<>> THEN <<>>
    ELSE LET n    == Len(members)
             init == DeclaredAccesses(SubSeq(members, 1, n - 1))
         IN IF DeclaresAccess(members[n]) THEN Append(init, DeclaredAccess(members[n]))
            ELSE init

\* Member i conflicts with a member declared before it.
MemberConflicts(members, i) ==
    /\ DeclaresAccess(members[i])
    /\ \E j \in 1..(i - 1) :
           /\ DeclaresAccess(members[j])
           /\ ~FilteredAccess_is_compatible(DeclaredAccess(members[j]),
                                            DeclaredAccess(members[i]))

ConflictingMembers(members) == {i \in DOMAIN members : MemberConflicts(members, i)}

\* The kinds of the registered states are those of the declared members.
SameKinds(states, members) ==
    /\ Len(states) = Len(members)
    /\ \A i \in DOMAIN members :
           /\ states[i].kind = members[i].kind
           /\ members[i].kind = "Query"
              => /\ states[i].query_type = members[i].q.query_type
                 /\ states[i].filter_type = members[i].q.filter_type

\* C16: the members of a tuple register in declaration order on the one
\* SystemMeta.  When a member conflicts with the members before it, the
\* panic is that of the first such member, the metadata holds the accesses
\* of the members before that one and of none after it, and no State is
\* stored; when none conflicts, the States are stored in declaration order.
C16_FirstConflictingMemberAborts ==
    [][\A s \in Systems :
          RegistersTuple(s)
          => LET members == DeclaredTuple(s)
                 bad     == ConflictingMembers(members)
                 first   == CHOOSE i \in bad : \A j \in bad : i <= j
             IN IF bad = {}
                THEN /\ phase'[s] = "init"
                     /\ panic'[s] = NoPanic
                     /\ Len(param_state'[s]) = 1
                     /\ SameKinds((IF param_state'[s][1].kind = "Static"
                                   THEN param_state'[s][1].inner
                                   ELSE param_state'[s][1]).members, members)
                ELSE /\ phase'[s] = "panicked"
                     /\ param_state'[s] = <<>>
                     /\ IF members[first].kind = "World"
                        THEN panic'[s] = WorldPanic
                        ELSE /\ panic'[s].kind = "B0001"
                             /\ panic'[s].query_type = members[first].q.query_type
                             /\ panic'[s].filter_type = members[first].q.filter_type
                     /\ meta'[s].component_access_set.filtered_accesses =
                            DeclaredAccesses(SubSeq(members, 1, first - 1))]_vars

C16_Witness ==
    \E s \in Systems :
        /\ phase[s] = "panicked"
        /\ declared[s] # <<>>
        /\ declared[s][1].kind = "Tuple"
        /\ declared[s][1].members =
               <<QueryParam(QMutHealthWithEnemy), QueryParam(QRefHealth), WorldParam>>
        /\ panic[s].kind = "B0001"
        /\ panic[s].query_type = "&Health"
        /\ Len(meta[s].component_access_set.filtered_accesses) = 1

\* The join of a sequence of filtered accesses with an access.
RECURSIVE JoinAccesses(_, _)
JoinAccesses(access, filtered) ==
    IF filtered = <<>> THEN access
    ELSE JoinAccesses(Access_extend(access, filtered[1].access), Tail(filtered))

\* The storage locations of the world that a member type reads and writes
\* (rw = FALSE: writes only): those of the accessed components in the
\* archetypes its query matches.
MemberLocations(p, rw) ==
    IF p.kind # "Query" THEN {}
    ELSE LET acc == p.q.component_access.access
             cs  == IF rw THEN acc.reads_and_writes ELSE acc.writes
             locs == {ArchetypeComponentId(a, c) :
                         a \in {x \in archetypes : QueryState_matches(p.q.component_access, x)},
                         c \in cs}
         IN {l \in locs : l[2] \in l[1]}

\* C17: when the tuple of a system registers, the system's metadata holds
\* afterwards the access it held before joined with the accesses that the
\* members declare, in declaration order, and with the storage locations
\* of their queries; its name and last_run are as before, and the empty
\* tuple leaves it as it was.
C17_AccessMergedIn ==
    [][\A s \in Systems :
          (RegistersTuple(s) /\ phase'[s] = "init")
          => LET members == DeclaredTuple(s)
                 before  == meta[s]
                 after   == meta'[s]
             IN /\ after.component_access_set.filtered_accesses =
                       before.component_access_set.filtered_accesses
                           \o DeclaredAccesses(members)
                /\ after.component_access_set.combined_access =
                       JoinAccesses(before.component_access_set.combined_access,
                                    DeclaredAccesses(members))
                /\ after.archetype_component_access.reads_and_writes =
                       before.archetype_component_access.reads_and_writes
                           \cup UNION {MemberLocations(m, TRUE) : m \in Range(members)}
                /\ after.archetype_component_access.writes =
                       before.archetype_component_access.writes
                           \cup UNION {MemberLocations(m, FALSE) : m \in Range(members)}
                /\ after.archetype_component_access.reads_all =
                       (before.archetype_component_access.reads_all
                            \/ WorldParam \in Range(members))
                /\ after.archetype_component_access.writes_all =
                       before.archetype_component_access.writes_all
                /\ after.name = before.name
                /\ after.last_run = before.last_run
                /\ members = <<>> => after = before]_vars

C17_Witness ==
    \E s \in Systems :
        /\ phase[s] = "ready"
        /\ declared[s] # <<>>
        /\ declared[s][1].kind = "Tuple"
        /\ Len(declared[s][1].members) = 3
        /\ Len(meta[s].component_access_set.filtered_accesses) = 2
        /\ meta[s].component_access_set.combined_access.writes = {Health}
        /\ Cardinality(meta[s].archetype_component_access.writes) = 2
        /\ runs[s] = 0

\* The parameter of system s is a StaticSystemParam.
IsStatic(s) == param_state[s] # <<>> /\ param_state[s][1].kind = "Static"

\* On the State of a StaticSystemParam<P>, new_archetype, get_param and
\* apply return what those of P return on it, and the item unwraps to
\* the item of P.
C18_SameResults ==
    \A s \in Systems :
        IsStatic(s)
        => LET st == param_state[s][1]
               wrap(r) == [r EXCEPT !.state = [kind |-> "Static", inner |-> r.state]]
           IN /\ \A a \in ArchetypeUniverse :
                     StaticSystemParam_new_archetype(st, a, meta[s]) =
                         wrap(SystemParam_new_archetype(st.inner, a, meta[s]))
              /\ StaticSystemParam_get_param(st, alarm) =
                     wrap(SystemParam_get_param(st.inner, alarm))
              /\ StaticSystemParam_apply(st, alarm) =
                     wrap(SystemParam_apply(st.inner, alarm))
              /\ StaticSystemParam_deref(StaticSystemParam_item(st, meta[s], change_tick)) =
                     SystemParam_item(st.inner, meta[s], change_tick)

\* C18: every operation on StaticSystemParam<P> does what the operation of
\* P does on the same State, metadata and world.  init_state panics exactly
\* when that of P does, and leaves the metadata and the State of P;
\* new_archetype, get_param and apply leave the State, the metadata and
\* the world that those of P leave; and the item unwraps (deref,
\* into_inner) to the item of P.
C18_StaticEquivalent ==
    /\ []C18_SameResults
    /\ [][\A s \in Systems :
          /\ (RegistersTuple(s) /\ declared'[s][1].kind = "Static")
             => LET r == SystemParam_init_state(archetypes, meta[s], declared'[s][1].p)
                IN /\ panic'[s] = r.panic
                   /\ meta'[s] = r.meta
                   /\ (r.panic = NoPanic) = (phase'[s] = "init")
                   /\ r.panic = NoPanic
                      => /\ Len(param_state'[s]) = 1
                         /\ param_state'[s][1].kind = "Static"
                         /\ param_state'[s][1].inner = r.state
          /\ (IsStatic(s) /\ phase[s] \in {"init", "ready"} /\ archetypes' # archetypes)
             => LET a == CHOOSE x \in archetypes' : x \notin archetypes
                    r == SystemParam_new_archetype(param_state[s][1].inner, a, meta[s])
                IN /\ param_state'[s][1].inner = r.state
                   /\ meta'[s] = r.meta
          /\ (IsStatic(s) /\ RunStart(s))
             => LET r  == SystemParam_get_param(param_state[s][1].inner, alarm)
                    it == SystemParam_item(r.state, meta[s], change_tick)
                IN /\ param_state'[s][1].inner = r.state
                   /\ alarm' = r.alarm
                   /\ meta'[s] = meta[s]
                   /\ \A x \in item'[s][1] :
                          /\ StaticSystemParam_deref(x) = it
                          /\ StaticSystemParam_into_inner(x) = it
                   /\ item'[s][1] # {}
          /\ (IsStatic(s) /\ Apply(s))
             => LET r == SystemParam_apply(param_state[s][1].inner, alarm)
                IN /\ param_state'[s][1].inner = r.state
                   /\ alarm' = r.alarm
                   /\ meta'[s] = meta[s]]_vars

C18_Witness ==
    \E s \in Systems :
        /\ IsStatic(s)
        /\ phase[s] = "ready"
        /\ runs[s] = 2
        /\ alarm
        /\ ~Flagged(TupleState(s).members)
        /\ Cardinality(archetypes) > 1
        /\ meta[s].archetype_component_access.writes # {}

\* C19: a conflict is raised only by a registration step of a system that
\* is registering; a system whose registration panicked stays panicked and
\* never becomes ready or runs; and for a system that is ready or running
\* no panic is recorded: new_archetype, get_param and apply raise none.
C19_ConflictsOnlyAtRegistration ==
    /\ [](\A s \in Systems :
             /\ phase[s] \in {"ready", "running"} => panic[s] = NoPanic
             /\ phase[s] = "panicked" => panic[s] # NoPanic /\ runs[s] = 0)
    /\ [][\A s \in Systems :
             /\ phase[s] = "panicked"
                => /\ phase'[s] = "panicked"
                   /\ panic'[s] = panic[s]
                   /\ param_state'[s] = param_state[s]
             /\ panic'[s] # panic[s] => phase[s] = "init" /\ RegistersTuple(s)
             /\ (RunStart(s) \/ RunEnd(s) \/ Apply(s) \/ archetypes' # archetypes)
                => panic' = panic /\ (phase[s] # "panicked" => phase'[s] # "panicked")]_vars

C19_Witness ==
    \E s \in Systems :
        /\ phase[s] = "panicked"
        /\ panic[s].kind = "B0001"
        /\ Cardinality(archetypes) > MaxArchetypes

\* System s mutates the world only through Deferred buffers.
OnlyDeferred(s) ==
    /\ param_state[s] # <<>>
    /\ \A p \in DOMAIN param_state[s] : param_state[s][p].kind = "Deferred"

\* System s writes the alarm directly.
DirectWriter(s) == \E p \in DOMAIN param_state[s] : param_state[s][p].kind = "ResMut"

\* C20: a system whose parameters are Deferred buffers declares no access,
\* so its access is compatible with that of every system, a direct writer
\* of the alarm included, and the executor starts it whatever is running;
\* while a system runs, the alarm is changed only by a write of a system
\* that holds ResMut<Alarm>; and a queued mutation reaches the alarm only
\* in a flush, with no system running.
C20_DeferredRunsBesideWriter ==
    /\ [](\A s \in Systems :
             (OnlyDeferred(s) /\ phase[s] \in {"init", "ready", "running"})
             => /\ meta[s].archetype_component_access = Access_default
                /\ meta[s].component_access_set = FilteredAccessSet_default
                /\ \A t \in Systems :
                       Access_is_compatible(meta[s].archetype_component_access,
                                            meta[t].archetype_component_access)
                /\ (phase[s] = "ready" /\ runs[s] < MaxRuns) => ENABLED RunStart(s))
    /\ [][/\ (alarm' # alarm /\ ~NoneRunning)
             => \E s \in Systems, p \in ParamIndex : ResMutWrite(s, p) /\ DirectWriter(s)
          /\ (alarm' # alarm /\ NoneRunning)
             => ResetAlarm \/ \E s \in Systems : Apply(s) /\ Flagged(param_state[s])
          /\ \A s \in Systems : (Apply(s) /\ Flagged(param_state[s])) => NoneRunning /\ alarm'
          /\ \A s \in Systems, p \in ParamIndex :
                 DeferredFlag(s, p) => alarm' = alarm]_vars

C20_Witness ==
    /\ OnlyDeferred("X")
    /\ DirectWriter("Y")
    /\ phase["X"] = "running"
    /\ phase["Y"] = "running"
    /\ Flagged(param_state["X"])
    /\ ~alarm
    /\ runs["Y"] = 2

\* The kinds of parameter that declare no access.
NoAccessKinds ==
    {"Local", "Deferred", "Archetypes", "Components", "Entities", "Bundles",
     "SystemChangeTick", "SystemName", "PhantomData"}

NoAccessParams == {p \in KindParams : p.kind \in NoAccessKinds}

\* The step declares parameter p on system s.
Declares(s, p) == declared'[s] = Append(declared[s], p)

\* The declarations of system s that declare an access.
AccessDeclarations(s) == SelectSeq(declared[s], LAMBDA p : p.kind \notin NoAccessKinds)

\* C21: the registration of a Local, a Deferred, &Archetypes, &Components,
\* &Entities, &Bundles, a SystemChangeTick, a SystemName or a PhantomData
\* never aborts and leaves the accesses of the SystemMeta as they are,
\* whatever the system has declared before; and the accesses and the outcome
\* of the registration of a system are those of its other parameters alone.
C21_NoAccessKindsRegisterFreely ==
    /\ [](\A s \in Systems :
             /\ CanDeclare(s)
                => \A p \in NoAccessParams :
                      LET r == SystemParam_init_state(archetypes, meta[s], p)
                      IN r.panic = NoPanic /\ r.meta = meta[s]
             /\ phase[s] # "absent"
                => LET r == Tuple_init_state(archetypes, SystemMeta_new(s),
                                             AccessDeclarations(s))
                   IN /\ r.panic = panic[s]
                      /\ r.meta.component_access_set = meta[s].component_access_set
                      /\ phase[s] # "panicked"
                         => r.meta.archetype_component_access
                                = meta[s].archetype_component_access)
    /\ [][\A s \in Systems, p \in NoAccessParams :
             Declares(s, p)
             => /\ meta' = meta
                /\ panic' = panic
                /\ phase' = phase
                /\ Len(param_state'[s]) = Len(param_state[s]) + 1]_vars

C21_Witness ==
    /\ declared["X"] = <<QueryParam(QMutHealthWithEnemy), ArchetypesParam>>
    /\ Access_has_any_write(meta["X"].archetype_component_access)
    /\ phase["X"] = "ready"

\* C22: apply does nothing for a parameter that is not a Deferred buffer:
\* a flush leaves the State of every Query, &World, Local, metadata reader,
\* SystemChangeTick, SystemName and PhantomData as it is, never changes the
\* SystemMeta, and changes the world only when the system holds a Deferred
\* with a queued mutation.
C22_ApplyOnlyFlushesBuffers ==
    /\ [](\A s \in Systems : \A p \in DOMAIN param_state[s] :
             param_state[s][p].kind # "Deferred"
             => \A w \in BOOLEAN :
                   SystemParam_apply(param_state[s][p], w)
                       = [state |-> param_state[s][p], alarm |-> w])
    /\ [][\A s \in Systems :
             Apply(s)
             => /\ meta' = meta
                /\ archetypes' = archetypes
                /\ \A p \in DOMAIN param_state[s] :
                       param_state[s][p].kind # "Deferred"
                       => param_state'[s][p] = param_state[s][p]
                /\ ~Flagged(param_state[s])
                   => alarm' = alarm /\ param_state' = param_state]_vars

C22_Witness ==
    /\ declared["X"] = <<LocalParam, DeferredParam>>
    /\ phase["X"] = "ready"
    /\ Local_deref(param_state["X"][1]) = 42
    /\ ~param_state["X"][2].flag
    /\ alarm

\* The storage locations of archetype a that a query reads (rw = "r") or
\* writes (rw = "w"): none when the query does not match the archetype.
NewLocations(state, a, rw) ==
    IF QueryState_matches(state.component_access, a)
    THEN {ArchetypeComponentId(a, c) :
             c \in (IF rw = "w" THEN state.component_access.access.writes
                    ELSE state.component_access.access.reads_and_writes) \cap a}
    ELSE {}

\* The positions of the queries among the parameters of system s.
QueryIndex(s) == {p \in DOMAIN param_state[s] : param_state[s][p].kind = "Query"}

\* C23: when an archetype is created, new_archetype leaves the State of
\* every Local, Deferred, &World, metadata reader, SystemChangeTick,
\* SystemName and PhantomData as it is and adds nothing for them to the
\* SystemMeta; for a Query it adds to archetype_component_access exactly
\* the locations of the new archetype that the query accesses, and
\* nothing when the archetype does not match.
C23_NewArchetypeAddsQueryAccess ==
    [][\A a \in ArchetypeUniverse :
          (a \notin archetypes /\ archetypes' = archetypes \cup {a})
          => \A s \in Systems :
                phase[s] \in {"init", "ready"}
                => /\ DOMAIN param_state'[s] = DOMAIN param_state[s]
                   /\ \A p \in DOMAIN param_state[s] \ QueryIndex(s) :
                          param_state'[s][p] = param_state[s][p]
                   /\ \A p \in QueryIndex(s) :
                          /\ param_state'[s][p].component_access
                                 = param_state[s][p].component_access
                          /\ param_state'[s][p].matched_archetypes
                                 = param_state[s][p].matched_archetypes \cup
                                   (IF QueryState_matches(param_state[s][p].component_access, a)
                                    THEN {a} ELSE {})
                   /\ meta'[s].component_access_set = meta[s].component_access_set
                   /\ meta'[s].name = meta[s].name
                   /\ meta'[s].last_run = meta[s].last_run
                   /\ meta'[s].archetype_component_access =
                          [meta[s].archetype_component_access EXCEPT
                              !.reads_and_writes = @ \cup
                                  UNION {NewLocations(param_state[s][p], a, "r") :
                                            p \in QueryIndex(s)},
                              !.writes = @ \cup
                                  UNION {NewLocations(param_state[s][p], a, "w") :
                                            p \in QueryIndex(s)}]]_vars

C23_Witness ==
    /\ declared["X"] = <<QueryParam(QMutHealthWithEnemy), LocalParam>>
    /\ phase["X"] = "ready"
    /\ runs["X"] = 1
    /\ archetypes = {EmptyArchetype, {Health}, {Health, Enemy}}
    /\ meta["X"].archetype_component_access.writes
           = {ArchetypeComponentId({Health, Enemy}, Health)}
    /\ Local_deref(param_state["X"][2]) = 42

\* The names a SystemMeta handed to get_param may carry.
SystemNames == Systems \cup {"renamed"}

\* C24: the State of a SystemName is the name the SystemMeta held when the
\* parameter registered, and every get_param returns that name, whatever
\* the name in the SystemMeta that get_param is handed.
C24_NameCapturedAtRegistration ==
    \A s \in Systems : \A p \in DOMAIN param_state[s] :
        param_state[s][p].kind = "SystemName"
        => /\ param_state[s][p].name = SystemMeta_new(s).name
           /\ \A n \in SystemNames :
                  SystemName_name(SystemName_get_param(
                      param_state[s][p], [meta[s] EXCEPT !.name = n]))
                      = SystemMeta_new(s).name
           /\ phase[s] = "running"
              => \A i \in item[s][p] : SystemName_name(i) = SystemMeta_new(s).name

C24_Witness ==
    /\ declared["X"] = <<WorldParam, SystemNameParam>>
    /\ phase["X"] = "running"
    /\ runs["X"] = 2
    /\ item["X"][2] = {[kind |-> "SystemName", f0 |-> "X"]}

\* The step is an operation on the parameters of system s alone.
OperatesOn(s) ==
    \/ \E p \in KindParams \cup {QueryParam(q) : q \in QueryTypes} : Declares(s, p)
    \/ RunStart(s)
    \/ RunEnd(s)

\* C25: the SystemMeta of a system is its own: a registration or a run of
\* one system leaves the SystemMeta, the States and the outcome of every
\* other system as they are, and the accesses and the outcome of the
\* registration of a system are those its own declarations give on a
\* SystemMeta of its own, so that a conflict is raised only between
\* parameters of one system.
C25_MetaNotShared ==
    /\ [](\A s \in Systems :
             LET r == Tuple_init_state(archetypes, SystemMeta_new(s), declared[s])
             IN /\ r.panic = panic[s]
                /\ r.meta.component_access_set = meta[s].component_access_set
                /\ phase[s] \in {"init", "ready"}
                   => r.meta.archetype_component_access
                          = meta[s].archetype_component_access)
    /\ [][\A s \in Systems :
             OperatesOn(s)
             => \A t \in Systems \ {s} :
                   /\ meta'[t] = meta[t]
                   /\ param_state'[t] = param_state[t]
                   /\ panic'[t] = panic[t]
                   /\ phase'[t] = phase[t]]_vars

C25_Witness ==
    /\ declared["X"] = <<QueryParam(QMutHealth)>>
    /\ declared["Y"] = <<QueryParam(QMutHealth)>>
    /\ phase["X"] = "running"
    /\ phase["Y"] = "ready"
    /\ runs["Y"] = 1
    /\ ArchetypeComponentId({Health}, Health)
           \in meta["X"].archetype_component_access.writes
               \cap meta["Y"].archetype_component_access.writes

\* The members of the tuple of system s whose buffer holds a queued mutation.
QueuedMembers(s) ==
    {i \in DOMAIN TupleState(s).members :
        TupleState(s).members[i].kind \in BufferKinds /\ TupleState(s).members[i].flag}

\* The alarm after the buffers of members 1..i are applied one after another.
RECURSIVE AlarmAfter(_, _)
AlarmAfter(s, i) ==
    IF i = 0 THEN alarm
    ELSE IF i \in QueuedMembers(s) THEN TupleState(s).members[i].kind = "Deferred"
    ELSE AlarmAfter(s, i - 1)

\* C26: the flush and the refresh of a tuple go through its members in the
\* order of declaration, each member once: after a flush the alarm is what
\* the queued buffers give when applied from the first member to the last,
\* so that the buffer declared last decides, every queue is emptied and
\* every other member is unchanged; after a refresh every member is the
\* member at the same position, refreshed.
C26_TupleFlushInDeclarationOrder ==
    [][\A s \in Systems :
          (phase[s] = "ready" /\ param_state[s] # <<>>)
          => LET ms == TupleState(s).members
                 n  == Len(ms)
             IN /\ Apply(s)
                   => /\ alarm' = AlarmAfter(s, n)
                      /\ QueuedMembers(s) # {}
                         => alarm' = (ms[CHOOSE i \in QueuedMembers(s) :
                                            \A j \in QueuedMembers(s) : j <= i].kind
                                        = "Deferred")
                      /\ Len(param_state'[s][1].members) = n
                      /\ \A i \in 1..n :
                             param_state'[s][1].members[i] =
                                 IF ms[i].kind \in BufferKinds
                                 THEN [ms[i] EXCEPT !.flag = FALSE] ELSE ms[i]
                /\ \A a \in ArchetypeUniverse :
                       (a \notin archetypes /\ archetypes' = archetypes \cup {a})
                       => /\ Len(param_state'[s][1].members) = n
                          /\ \A i \in 1..n :
                                 param_state'[s][1].members[i] =
                                     IF ms[i].kind = "Query"
                                     THEN QueryState_new_archetype(ms[i], a) ELSE ms[i]]_vars

\* A flush has sounded the alarm from the buffer declared last in a tuple
\* that declares a silencing buffer first.
C26_Witness ==
    /\ declared["X"] = <<TupleParam(<<SilenceParam, LocalParam, DeferredParam>>)>>
    /\ phase["X"] = "ready"
    /\ runs["X"] = 1
    /\ QueuedMembers("X") = {}
    /\ alarm

\* C27: when the registration of &World aborts on a conflict, the
\* SystemMeta is as it was before the attempt: neither
\* archetype_component_access nor component_access_set has been extended
\* with the read-all access.
C27_WorldAbortLeavesMeta ==
    [][\A s \in Systems :
          (Declares(s, WorldParam) /\ phase'[s] = "panicked")
          => meta'[s] = meta[s]]_vars

\* C28: when the registration of a Query aborts on a conflict, the
\* SystemMeta is as it was before the attempt: the compatibility check is
\* made before component_access_set and archetype_component_access are
\* modified, and a query in conflict with the accesses of the system never
\* registers.
C28_QueryAbortLeavesMeta ==
    [][\A s \in Systems, q \in QueryTypes :
          Declares(s, QueryParam(q))
          => /\ phase'[s] = "panicked" => meta'[s] = meta[s] /\ panic'[s].kind = "B0001"
             /\ phase'[s] = "panicked"
                <=> FilteredAccessSet_get_conflicts_single(
                        meta[s].component_access_set, q.component_access) # {}]_vars

C28_Witness ==
    /\ declared["X"] = <<QueryParam(QMutHealth), QueryParam(QMutHealthWithEnemy)>>
    /\ phase["X"] = "panicked"
    /\ {Health, Enemy} \in archetypes
    /\ Len(meta["X"].component_access_set.filtered_accesses) = 1
    /\ meta["X"].archetype_component_access.writes
           = {ArchetypeComponentId(a, Health) : a \in archetypes \ {EmptyArchetype}}

\* The archetypes another world may hold.
OtherWorlds == {ws \cup {EmptyArchetype} : ws \in SUBSET ArchetypeUniverse}

\* The values archetype_component_access may have taken in another world.
OtherLocationAccesses ==
    {Access_default, Access_read_all(Access_default),
     Access_add_write(Access_default, ArchetypeComponentId({Health}, Health)),
     Access_add_write(Access_default, ArchetypeComponentId({Health, Enemy, Ally}, Health))}

\* Every parameter that system s has declared is a Query.
OnlyQueries(s) == \A i \in DOMAIN declared[s] : declared[s][i].kind = "Query"

\* C29: whether a Query registers or aborts is decided by the system's
\* component_access_set and the query's component_access alone: the outcome
\* of a registration is the same in a world that holds other archetypes
\* and with any archetype_component_access in the SystemMeta, the outcome
\* of a sequence of query registrations is the same in every world, and a
\* query that registers only extends archetype_component_access.
C29_DecidedByComponentAccess ==
    /\ [](\A s \in Systems :
             /\ CanDeclare(s)
                => \A q \in QueryTypes, ws \in OtherWorlds, x \in OtherLocationAccesses :
                      Query_init_state(
                          ws, [meta[s] EXCEPT !.archetype_component_access = x], q).panic
                          = Query_init_state(archetypes, meta[s], q).panic
             /\ (phase[s] # "absent" /\ OnlyQueries(s))
                => \A ws \in OtherWorlds :
                      Tuple_init_state(ws, SystemMeta_new(s), declared[s]).panic = panic[s])
    /\ [][\A s \in Systems, q \in QueryTypes :
             (Declares(s, QueryParam(q)) /\ phase'[s] # "panicked")
             => meta'[s].archetype_component_access =
                    Access_extend(meta[s].archetype_component_access,
                                  QueryState_new(archetypes, q).archetype_component_access)]_vars

\* A query refused on the components alone: the two queries write Health
\* in archetypes that no archetype of the world has in common.
C29_Witness ==
    /\ declared["X"] = <<QueryParam(QMutHealthWithEnemy), QueryParam(QMutHealthWithAlly)>>
    /\ phase["X"] = "panicked"
    /\ panic["X"].kind = "B0001"
    /\ archetypes = {EmptyArchetype, {Health, Enemy}, {Health, Ally}}

\* Every access that a holds is held by b.
AccessIncluded(a, b) ==
    /\ a.reads_and_writes \subseteq b.reads_and_writes
    /\ a.writes \subseteq b.writes
    /\ a.reads_all => b.reads_all
    /\ a.writes_all => b.writes_all

\* Every access declared in SystemMeta m is declared in SystemMeta n.
MetaIncluded(m, n) ==
    /\ AccessIncluded(m.archetype_component_access, n.archetype_component_access)
    /\ AccessIncluded(m.component_access_set.combined_access,
                      n.component_access_set.combined_access)
    /\ Len(m.component_access_set.filtered_accesses)
           <= Len(n.component_access_set.filtered_accesses)
    /\ \A i \in DOMAIN m.component_access_set.filtered_accesses :
           n.component_access_set.filtered_accesses[i]
               = m.component_access_set.filtered_accesses[i]

\* C30: the accesses of a SystemMeta only grow: every step of registration,
\* archetype refresh, run and flush keeps every access the SystemMeta held,
\* and get_param and apply do not modify the SystemMeta at all.
C30_AccessAppendOnly ==
    [][\A s \in Systems :
          /\ MetaIncluded(meta[s], meta'[s])
          /\ (RunStart(s) \/ Apply(s)) => meta' = meta]_vars

C30_Witness ==
    /\ declared["X"] = <<WorldParam, QueryParam(QRefHealth)>>
    /\ phase["X"] = "ready"
    /\ runs["X"] = 1
    /\ meta["X"].archetype_component_access.reads_all
    /\ meta["X"].archetype_component_access.reads_and_writes
           = {ArchetypeComponentId({Health}, Health),
              ArchetypeComponentId({Health, Ally}, Health)}
    /\ Len(meta["X"].component_access_set.filtered_accesses) = 2

\* Every identifier that access a holds for writing it also holds for reading.
WritesAreReads(a) == a.writes \subseteq a.reads_and_writes

\* C31: in every reachable SystemMeta, each identifier recorded with write
\* access is also recorded with read access, in component_access_set (its
\* combined access and each of its filtered accesses) and in
\* archetype_component_access.
C31_WriteImpliesRead ==
    \A s \in Systems :
        /\ WritesAreReads(meta[s].archetype_component_access)
        /\ WritesAreReads(meta[s].component_access_set.combined_access)
        /\ \A i \in DOMAIN meta[s].component_access_set.filtered_accesses :
               WritesAreReads(meta[s].component_access_set.filtered_accesses[i].access)

C31_Witness ==
    /\ phase["X"] = "ready"
    /\ declared["X"] = <<ParamSetParam(<<QueryParam(QMutHealthWithEnemy),
                                         QueryParam(QMutHealthWithAlly)>>)>>
    /\ meta["X"].component_access_set.combined_access.writes = {Health}
    /\ Cardinality(meta["X"].archetype_component_access.writes) = 2

(***************************************************************************)
(* The skybox systems of the render world                                  *)
(* (crates/bevy_core_pipeline/src/skybox/mod.rs).                          *)
(***************************************************************************)
MaxEntities == 2

RenderEntities == 1..MaxEntities

\* The components an extracted entity is spawned with: a view, a skybox,
\* or a view with a skybox.
ExtractedBundles == {{ExtractedView}, {Skybox}, {ExtractedView, Skybox}}

\* Skybox(pub Handle<Image>): the skybox of entity e holds the handle e.
Skybox_handle(e) == e

\* The render worlds at the start of frame f that extract the entities
\* extracted: the image assets prepared so far and the binding of the view
\* uniforms, present once the uniform buffer has been written.
RenderWorlds(f, extracted, loaded) ==
    LET handles == {Skybox_handle(e) : e \in {x \in RenderEntities : Skybox \in extracted[x]}}
    IN {[frame     |-> f,
         extracted |-> extracted,
         entities  |-> extracted,
         images    |-> loaded \cup more,
         binding   |-> b] : more \in SUBSET handles, b \in BOOLEAN}

\* The systems added to the render app; the render world of the first frame
\* has been extracted.
InitSkyboxWith(active) ==
    /\ \E extracted \in [RenderEntities -> ExtractedBundles] :
           /\ render \in RenderWorlds(1, extracted, {})
           /\ archetypes = {EmptyArchetype} \cup {extracted[e] : e \in RenderEntities}
    /\ alarm = FALSE
    /\ meta = [s \in Systems |-> SystemMeta_new(s)]
    /\ param_state = [s \in Systems |-> <<>>]
    /\ phase = [s \in Systems |-> IF s \in active THEN "init" ELSE "absent"]
    /\ panic = [s \in Systems |-> NoPanic]
    /\ alive = [s \in Systems |-> {}]
    /\ released = [s \in Systems |-> {}]
    /\ runs = [s \in Systems |-> 0]
    /\ item = [s \in Systems |-> <<>>]
    /\ obs = [s \in Systems |-> {}]
    /\ change_tick = 1
    /\ this_run = [s \in Systems |-> 0]
    /\ declared = [s \in Systems |-> <<>>]

InitSkybox == InitSkyboxWith(Systems)

\* One of the two systems, before any asset or uniform has been prepared.
InitSkyboxParams ==
    /\ \E s \in Systems : InitSkyboxWith({s})
    /\ render.images = {}
    /\ ~render.binding

\* The systems of the schedule are initialized one after the other.
SkyboxTurn(s) == phase[s] = "init" /\ (s = "Y" => phase["X"] # "init")

\* The i-th parameter of the system registers, in whatever order the
\* parameters are declared.
SkyboxInitStateAnyOrder(s, i) ==
    /\ SkyboxTurn(s)
    /\ \A k \in DOMAIN declared[s] : declared[s][k] # SkyboxParams(s)[i]
    /\ Register(s, SkyboxParams(s)[i],
                SystemParam_init_state(archetypes, meta[s], SkyboxParams(s)[i]))

\* The next parameter of the system registers, in the order of the
\* function's signature.
SkyboxInitState(s) ==
    /\ SkyboxTurn(s)
    /\ Len(declared[s]) < Len(SkyboxParams(s))
    /\ LET p == SkyboxParams(s)[Len(declared[s]) + 1]
       IN Register(s, p, SystemParam_init_state(archetypes, meta[s], p))

SkyboxInitialized(s) ==
    /\ Len(declared[s]) = Len(SkyboxParams(s))
    /\ Initialized(s)

\* The position of the parameter of that kind among the system's parameters.
SkyboxParamIndex(s, kind) ==
    CHOOSE i \in DOMAIN param_state[s] : param_state[s][i].kind = kind

\* The commands queued by the system and not yet applied.
Commands_queue(s) ==
    IF \E i \in DOMAIN param_state[s] : param_state[s][i].kind = "Commands"
    THEN param_state[s][SkyboxParamIndex(s, "Commands")].queue
    ELSE <<>>

\* commands.entity(entity).insert(component)
EntityCommands_insert(queue, entity, component) ==
    Append(queue, [entity |-> entity, insert |-> component])

\* The entities a query iterates: those in the archetypes its state matched.
Query_iter(state, entities) ==
    {e \in DOMAIN entities : entities[e] \in state.matched_archetypes}

\* The first of the views, in the order the query yields them.
Query_first(views) == CHOOSE e \in views : \A x \in views : e <= x

RECURSIVE prepare_skybox_pipelines(_, _)
\* The body of prepare_skybox_pipelines: for every view of the query, the
\* pipeline is specialized and the insert of its id is queued.
prepare_skybox_pipelines(queue, views) ==
    IF views = {} THEN queue
    ELSE LET entity == Query_first(views)
         IN prepare_skybox_pipelines(
                EntityCommands_insert(queue, entity, SkyboxPipelineId),
                views \ {entity})

RECURSIVE prepare_skybox_bind_groups_EitherPresent(_, _, _, _)
\* The bind group created when the image or the binding is there.
prepare_skybox_bind_groups_EitherPresent(queue, views, images, binding) ==
    IF views = {} THEN queue
    ELSE LET entity == Query_first(views)
             next   == IF Skybox_handle(entity) \in images \/ binding
                       THEN EntityCommands_insert(queue, entity, SkyboxBindGroup)
                       ELSE queue
         IN prepare_skybox_bind_groups_EitherPresent(next, views \ {entity}, images, binding)

RECURSIVE prepare_skybox_bind_groups(_, _, _, _)
\* The body of prepare_skybox_bind_groups: for every skybox of the query
\* whose image is among the render assets, when the view uniforms have a
\* binding, the bind group is created and its insert is queued.
prepare_skybox_bind_groups(queue, views, images, binding) ==
    IF views = {} THEN queue
    ELSE LET entity == Query_first(views)
             next   == IF Skybox_handle(entity) \in images /\ binding
                       THEN EntityCommands_insert(queue, entity, SkyboxBindGroup)
                       ELSE queue
         IN prepare_skybox_bind_groups(next, views \ {entity}, images, binding)

\* One run of a skybox system: its parameters are fetched and its body runs
\* up to its return.
SkyboxRun(s) ==
    /\ \A t \in Systems : phase[t] \in {"ready", "running"}
    /\ phase[s] = "ready"
    /\ runs[s] < render.frame
    /\ Executor_can_run(s)
    /\ LET c     == SkyboxParamIndex(s, "Commands")
           q     == SkyboxParamIndex(s, "Query")
           views == Query_iter(param_state[s][q], render.entities)
           queue == IF s = "X"
                    THEN prepare_skybox_pipelines(param_state[s][c].queue, views)
                    ELSE prepare_skybox_bind_groups(param_state[s][c].queue, views,
                                                    render.images, render.binding)
       IN param_state' = [param_state EXCEPT ![s][c].queue = queue]
    /\ phase' = [phase EXCEPT ![s] = "running"]
    /\ runs' = [runs EXCEPT ![s] = @ + 1]
    /\ this_run' = [this_run EXCEPT ![s] = change_tick]
    /\ UNCHANGED <<archetypes, alarm, meta, panic, alive, released, item, obs, change_tick, declared, render>>

RECURSIVE CommandQueue_apply_InsertsNothing(_, _)
\* The queue drained without its commands being run.
CommandQueue_apply_InsertsNothing(queue, entities) ==
    IF queue = <<>> THEN entities
    ELSE CommandQueue_apply_InsertsNothing(Tail(queue), entities)

RECURSIVE CommandQueue_apply(_, _)
\* CommandQueue::apply: the queued commands run in the order they were queued.
CommandQueue_apply(queue, entities) ==
    IF queue = <<>> THEN entities
    ELSE CommandQueue_apply(Tail(queue),
             [entities EXCEPT ![Head(queue).entity] = @ \cup {Head(queue).insert}])

RECURSIVE World_new_archetypes(_, _, _)
\* The parameters of a system refreshed for each of the archetypes created.
World_new_archetypes(states, system_meta, archs) ==
    IF archs = {} THEN [state |-> states, meta |-> system_meta]
    ELSE LET a == CHOOSE x \in archs : TRUE
             r == Tuple_new_archetype(states, a, system_meta)
         IN World_new_archetypes(r.state, r.meta, archs \ {a})

\* The flush of the command buffer of a system at a synchronization point:
\* its commands are applied to the world and the buffer is left empty; every
\* system refreshes its parameters for the archetypes the inserts created.
SkyboxApply(s) ==
    /\ NoneRunning
    /\ phase[s] = "ready"
    /\ Commands_queue(s) # <<>>
    /\ LET c        == SkyboxParamIndex(s, "Commands")
           entities == CommandQueue_apply(param_state[s][c].queue, render.entities)
           created  == {entities[e] : e \in DOMAIN entities} \ archetypes
           cleared  == [param_state EXCEPT ![s][c].queue = <<>>]
           r(t)     == World_new_archetypes(cleared[t], meta[t], created)
       IN /\ render' = [render EXCEPT !.entities = entities]
          /\ archetypes' = archetypes \cup created
          /\ param_state' = [t \in Systems |-> r(t).state]
          /\ meta' = [t \in Systems |-> r(t).meta]
    /\ UNCHANGED <<alarm, phase, panic, alive, released, runs, item, obs, change_tick, this_run, declared>>

\* The end of a frame and the extraction of the next: the entities of the
\* render world are cleared and extracted again; assets prepared stay.
SkyboxNextFrame ==
    /\ \A s \in Systems :
           phase[s] = "ready" /\ runs[s] = render.frame /\ Commands_queue(s) = <<>>
    /\ render.frame < MaxRuns
    /\ render' \in RenderWorlds(render.frame + 1, render.extracted, render.images)
    /\ UNCHANGED <<archetypes, alarm, meta, param_state, phase, panic, alive, released, runs, item, obs, change_tick, this_run, declared>>

\* The two systems registering their parameters in any order.
NextSkyboxParams ==
    \/ \E s \in Systems : \E i \in DOMAIN SkyboxParams(s) : SkyboxInitStateAnyOrder(s, i)
    \/ \E s \in Systems : SkyboxInitialized(s)

SpecSkyboxParams == InitSkyboxParams /\ [][NextSkyboxParams]_vars

\* The two systems registered, run once a frame, and flushed.
NextSkybox ==
    \/ \E s \in Systems : SkyboxInitState(s)
    \/ \E s \in Systems : SkyboxInitialized(s)
    \/ \E s \in Systems : SkyboxRun(s)
    \/ \E s \in Systems : RunEnd(s)
    \/ \E s \in Systems : SkyboxApply(s)
    \/ SkyboxNextFrame

SpecSkybox == InitSkybox /\ [][NextSkybox]_vars

\* The storage locations the state of a registered skybox parameter accesses.
SkyboxLocations(state) ==
    IF state.kind = "Query"
    THEN [reads  |-> state.archetype_component_access.reads_and_writes,
          writes |-> state.archetype_component_access.writes]
    ELSE IF state.kind = "Res"
    THEN [reads |-> {ResourceLocation(state.id)}, writes |-> {}]
    ELSE IF state.kind = "ResMutT"
    THEN [reads  |-> {ResourceLocation(state.id)},
          writes |-> {ResourceLocation(state.id)}]
    ELSE [reads |-> {}, writes |-> {}]

\* C32: whatever the order in which prepare_skybox_pipelines or
\* prepare_skybox_bind_groups declares its parameters, no registration
\* panics, and no two of the accesses declared name the same component,
\* resource or storage location with one of them a write.
C32_SkyboxParamsCompatible ==
    \A s \in Systems :
        /\ phase[s] # "panicked"
        /\ panic[s] = NoPanic
        /\ LET fa == meta[s].component_access_set.filtered_accesses
           IN \A i, j \in DOMAIN fa :
                  i # j => fa[i].access.writes \cap fa[j].access.reads_and_writes = {}
        /\ \A i, j \in DOMAIN param_state[s] :
               i # j => SkyboxLocations(param_state[s][i]).writes
                            \cap SkyboxLocations(param_state[s][j]).reads = {}

\* prepare_skybox_pipelines has registered its six parameters with the query
\* declared first and the commands last, and holds its one write.
C32_Witness ==
    /\ phase["X"] = "ready"
    /\ Len(declared["X"]) = 6
    /\ declared["X"][1] = QueryParam(QViewsWithSkybox)
    /\ declared["X"][2] = ResParam("Msaa")
    /\ declared["X"][6] = CommandsParam
    /\ meta["X"].component_access_set.combined_access.writes
           = {RenderId("SpecializedRenderPipelines<SkyboxPipeline>")}
    /\ ExtractedView \in meta["X"].component_access_set.combined_access.reads_and_writes
    /\ \E a \in archetypes :
           ArchetypeComponentId(a, ExtractedView)
               \in meta["X"].archetype_component_access.reads_and_writes

\* The entities the query of prepare_skybox_pipelines is declared to match:
\* those that hold an ExtractedView and a Skybox.
ViewsWithSkybox ==
    {e \in RenderEntities : {ExtractedView, Skybox} \subseteq render.entities[e]}

\* The inserts of that component queued by the system for that entity.
QueuedInserts(s, e, component) ==
    {i \in DOMAIN Commands_queue(s) :
        Commands_queue(s)[i] = [entity |-> e, insert |-> component]}

\* When the run of prepare_skybox_pipelines has come to its return, its
\* queue holds one insert of SkyboxPipelineId for each entity with an
\* ExtractedView and a Skybox and nothing else, and no entity holds a
\* SkyboxPipelineId.
C33_DuringRun ==
    phase["X"] = "running"
    => /\ \A e \in RenderEntities :
              Cardinality(QueuedInserts("X", e, SkyboxPipelineId))
                  = IF e \in ViewsWithSkybox THEN 1 ELSE 0
       /\ Len(Commands_queue("X")) = Cardinality(ViewsWithSkybox)
       /\ \A e \in RenderEntities : SkyboxPipelineId \notin render.entities[e]

\* The flush of the queue of prepare_skybox_pipelines leaves SkyboxPipelineId
\* on every entity it held an insert for, and on no other entity.
C33_AfterFlush ==
    (Commands_queue("X") # <<>> /\ Commands_queue("X")' = <<>>)
    => \A e \in RenderEntities :
           SkyboxPipelineId \in render'.entities[e]
               <=> QueuedInserts("X", e, SkyboxPipelineId) # {}

\* C33: prepare_skybox_pipelines queues exactly one insert of
\* SkyboxPipelineId for each entity matched by its query (an ExtractedView
\* with a Skybox) and none for any other entity; the component is not on the
\* entity during the run and is on it after the next flush of the system's
\* command buffer.
C33_PipelineIdQueuedThenInserted == [](C33_DuringRun) /\ [][C33_AfterFlush]_vars

\* In the second frame prepare_skybox_pipelines has run and its queue has
\* been flushed: the view with a skybox holds a SkyboxPipelineId and the
\* view without a skybox holds none.
C33_Witness ==
    /\ render.frame = 2
    /\ runs["X"] = 2
    /\ phase["X"] = "ready"
    /\ Commands_queue("X") = <<>>
    /\ render.extracted[1] = {ExtractedView, Skybox}
    /\ render.extracted[2] = {ExtractedView}
    /\ SkyboxPipelineId \in render.entities[1]
    /\ render.entities[2] = {ExtractedView}

\* The skybox image of the entity is among the render assets and the view
\* uniforms have a binding.
BindGroupReady(e) == Skybox_handle(e) \in render.images /\ render.binding

\* When the run of prepare_skybox_bind_groups has come to its return, its
\* queue holds an insert of SkyboxBindGroup for exactly the entities with a
\* Skybox whose image and view-uniform binding are there, and nothing else.
C34_DuringRun ==
    phase["Y"] = "running"
    => /\ \A e \in RenderEntities :
              Cardinality(QueuedInserts("Y", e, SkyboxBindGroup))
                  = IF Skybox \in render.entities[e] /\ BindGroupReady(e) THEN 1 ELSE 0
       /\ Len(Commands_queue("Y"))
              = Cardinality({e \in RenderEntities :
                                Skybox \in render.entities[e] /\ BindGroupReady(e)})

\* The run of prepare_skybox_bind_groups changes no component, and the flush
\* of its queue changes no component of an entity it queued nothing for.
C34_NothingChanged ==
    /\ (phase["Y"] = "ready" /\ phase'["Y"] = "running") => render' = render
    /\ (Commands_queue("Y") # <<>> /\ Commands_queue("Y")' = <<>>)
       => \A e \in RenderEntities :
              QueuedInserts("Y", e, SkyboxBindGroup) = {}
                  => render'.entities[e] = render.entities[e]

\* C34: prepare_skybox_bind_groups queues an insert of SkyboxBindGroup for an
\* entity with a Skybox if and only if the skybox image is among the render
\* assets and the view-uniform binding is available; when either is missing
\* nothing is queued for that entity and no component of it is changed.
C34_BindGroupQueuedIffReady == [](C34_DuringRun) /\ [][C34_NothingChanged]_vars

\* prepare_skybox_bind_groups has run over two skyboxes with the binding
\* available, the image of the first prepared and that of the second not:
\* one insert is queued, for the first.
C34_Witness ==
    /\ phase["Y"] = "running"
    /\ render.binding
    /\ render.images = {Skybox_handle(1)}
    /\ Skybox \in render.entities[1]
    /\ Skybox \in render.entities[2]
    /\ Commands_queue("Y") = <<[entity |-> 1, insert |-> SkyboxBindGroup]>>

====
